---- MODULE Spec2Model ----
(***************************************************************************)
(* Model of the Java code analysis backend: the /analyze handler of        *)
(* api_server.py with the rule-based detectors of direct_detection.py and  *)
(* the metric extraction it scores with.  Source texts are strings; every  *)
(* rule is evaluated on the text itself with the substring, count, split   *)
(* and lower-casing primitives Python applies.                             *)
(***************************************************************************)
EXTENDS Integers, Sequences, FiniteSets, TLC

\* request, response, locals: one /analyze call, its answer and the values its
\* handler computed; other: a second /analyze call served by another thread;
\* agent1, agent2: the module's global agents; training: the last /train
\* call, its request body and its answer (status 0 while the training runs)
VARIABLES request, response, locals, other, agent1, agent2, training

vars == <<request, response, locals, other, agent1, agent2, training>>

(***************************************************************************)
(* Python string primitives                                                *)
(***************************************************************************)

\* needle in text
In(needle, text) ==
  \E i \in 1..(Len(text) - Len(needle) + 1) :
      SubSeq(text, i, i + Len(needle) - 1) = needle

\* text.find(needle, i): the first position from i on where needle occurs,
\* 0 when there is none
Find(text, needle, i) ==
  LET found == {j \in i..(Len(text) - Len(needle) + 1) :
                  SubSeq(text, j, j + Len(needle) - 1) = needle}
  IN  IF found = {} THEN 0
      ELSE CHOOSE j \in found : \A k \in found : j <= k

\* text.count(needle): occurrences counted left to right without overlap
RECURSIVE CountFrom(_, _, _)
CountFrom(text, needle, i) ==
  LET j == Find(text, needle, i)
  IN  IF j = 0 THEN 0 ELSE 1 + CountFrom(text, needle, j + Len(needle))

Count(text, needle) == CountFrom(text, needle, 1)

\* The characters of a text.  A string of a module holds the ASCII characters
\* but the grave accent and, of the others, those whose code has a low byte of
\* 0x80 or more.  str.lower() and str.title() lead from these characters to
\* 136 characters that no string of a module holds ('ÿ'.title() is U+0178,
\* 'Ɔ'.lower() is U+0254); each of them is written as a character of the
\* private use area, which has no case, is no white space and is part of no
\* keyword: U+E080..U+E0FF and then U+E180..U+E187 stand, in this order, for
\*   0178 0220 023D 0243 0244 0245 0253 0254 0256 0257 0259 025B 025C 0260
\*   0261 0263 0265 0266 0268 0269 026A 026C 026F 0272 0275 0300 0301 0308
\*   030A 030C 0313 0331 0342 0345 037B 037C 037D 037F 0412 0414 041E 0421
\*   0422 042A 0432 0434 043E 0441 0442 044A 0462 0463 0535 0550 0551 0552
\*   0553 0554 0555 0556 0565 1E60 1E61 1F70 1F71 1F72 1F73 1F74 1F75 1F76
\*   1F77 1F78 1F79 1F7A 1F7B 1F7C 1F7D 2D00 2D01 2D02 2D03 2D04 2D05 2D06
\*   2D07 2D08 2D09 2D0A 2D0B 2D0C 2D0D 2D0E 2D0F 2D10 2D11 2D12 2D13 2D14
\*   2D15 2D16 2D17 2D18 2D19 2D1A 2D1B 2D1C 2D1D 2D1E 2D1F 2D20 2D21 2D22
\*   2D23 2D24 2D25 2D27 2D2D A64A A64B AB53 AB70 AB71 AB72 AB73 AB74 AB75
\*   AB76 AB77 AB78 AB79 AB7A AB7B AB7C AB7D AB7E AB7F
\* Everywhere in this module, in a text posted as in a text computed, such a
\* character is the character it stands for, and the tables below give it
\* the case, the lower-case and the title-case form of that character.
\*
\* str.lower() on one character: the image of every character that has one,
\* after the Unicode tables of the interpreter
LowerTable ==
  LET upper ==
        "ABCDEFGHIJKLMNOPQRSTUVWXYZÀÁÂÃÄÅ" \o
        "ÆÇÈÉÊËÌÍÎÏÐÑÒÓÔÕÖØÙÚÛÜÝÞƁƂƄƆƇƉƊƋ" \o
        "ƎƏƐƑƓƔƖƗƘƜƝƟƠƢƤƦƧƩƬƮƯƱƲƳƵƷƸƼǄǅǇǈ" \o
        "ǊǋǍǏǑǓǕǗǙǛǞǠǢǤǦǨǪǬǮǱǲǴǶǷǸǺǼǾΆΈΉΊ" \o
        "ΌΎΏΑΒΓΔΕΖΗΘΙΚΛΜΝΞΟΠΡΣΤΥΦΧΨΩΪΫϏϘϚ" \o
        "ϜϞϠϢϤϦϨϪϬϮϴϷϹϺϽϾϿҀҊҌҎҐҒҔҖҘҚҜҞҠҢҤ" \o
        "ҦҨҪҬҮҰҲҴҶҸҺҼҾӀӁӃӅӇӉӋӍӐӒӔӖӘӚӜӞӠӢӤ" \o
        "ӦӨӪӬӮӰӲӴӶӸӺӼӾႠႡႢႣႤႥႦႧႨႩႪႫႬႭႮႯႰႱႲ" \o
        "ႳႴႵႶႷႸႹႺႻႼႽႾႿჀჁჂჃჄჅჇჍᎠᎡᎢᎣᎤᎥᎦᎧᎨᎩᎪ" \o
        "ᎫᎬᎭᎮᎯᎰᎱᎲᎳᎴᎵᎶᎷᎸᎹᎺᎻᎼᎽᎾᎿᏀᏁᏂᏃᏄᏅᏆᏇᏈᏉᏊ" \o
        "ᏋᏌᏍᏎᏏᏐᏑᏒᏓᏔᏕᏖᏗᏘᏙᏚᏛᏜᏝᏞᏟᏠᏡᏢᏣᏤᏥᏦᏧᏨᏩᏪ" \o
        "ᏫᏬᏭᏮᏯᏰᏱᏲᏳᏴᏵᲐᲑᲒᲓᲔᲕᲖᲗᲘᲙᲚᲛᲜᲝᲞᲟᲠᲡᲢᲣᲤ" \o
        "ᲥᲦᲧᲨᲩᲪᲫᲬᲭᲮᲯᲰᲱᲲᲳᲴᲵᲶᲷᲸᲹᲺᲽᲾᲿẀẂẄẆẈẊẌ" \o
        "ẎẐẒẔẞẠẢẤẦẨẪẬẮẰẲẴẶẸẺẼẾỀỂỄỆỈỊỌỎỐỒỔ" \o
        "ỖỘỚỜỞỠỢỤỦỨỪỬỮỰỲỴỶỸỺỼỾᾈᾉᾊᾋᾌᾍᾎᾏᾘᾙᾚ" \o
        "ᾛᾜᾝᾞᾟᾨᾩᾪᾫᾬᾭᾮᾯᾸᾹᾺΆᾼῈΈῊΉῌῘῙῚΊῨῩῪΎῬ" \o
        "ῸΌῺΏῼↃⒶⒷⒸⒹⒺⒻⒼⒽⒾⒿⓀⓁⓂⓃⓄⓅⓆⓇⓈⓉⓊⓋⓌⓍⓎⓏ" \o
        "ⲀⲂⲄⲆⲈⲊⲌⲎⲐⲒⲔⲖⲘⲚⲜⲞⲠⲢⲤⲦⲨⲪⲬⲮⲰⲲⲴⲶⲸⲺⲼⲾ" \o
        "ⳀⳂⳄⳆⳈⳊⳌⳎⳐⳒⳔⳖⳘⳚⳜⳞⳠⳢⳫⳭⳲꚀꚂꚄꚆꚈꚊꚌꚎꚐꚒꚔ" \o
        "ꚖꚘꚚꞀꞂꞄꞆꞋꞍꞐꞒꞖꞘꞚꞜꞞꞠꞢꞤꞦꞨꞪꞫꞬꞭꞮꞰꞱꞲꞳꞴꞶ" \o
        "ꞸꞺꞼꞾꟀꟂꟄꟅꟆꟇꟉꟐꟖꟘꟵ" \o
        ""
      lower ==
        "abcdefghijklmnopqrstuvwxyzàáâãäå" \o
        "æçèéêëìíîïðñòóôõöøùúûüýþƃƅƈƌ" \o
        "ǝƒƙơƣƥʀƨʃƭʈưʊʋƴƶʒƹƽǆǆǉǉ" \o
        "ǌǌǎǐǒǔǖǘǚǜǟǡǣǥǧǩǫǭǯǳǳǵƕƿǹǻǽǿάέήί" \o
        "όύώαβγδεζηθικλμνξοπρστυφχψωϊϋϗϙϛ" \o
        "ϝϟϡϣϥϧϩϫϭϯθϸϲϻҁҋҍҏґғҕҗҙқҝҟҡңҥ" \o
        "ҧҩҫҭүұҳҵҷҹһҽҿӏӂӄӆӈӊӌӎӑӓӕӗәӛӝӟӡӣӥ" \o
        "ӧөӫӭӯӱӳӵӷӹӻӽӿ" \o
        "" \o
        "ꮀꮁꮂꮃꮄꮅꮆꮇꮈꮉꮊꮋꮌꮍꮎꮏꮐꮑꮒꮓꮔꮕꮖꮗꮘꮙꮚ" \o
        "ꮛꮜꮝꮞꮟꮠꮡꮢꮣꮤꮥꮦꮧꮨꮩꮪꮫꮬꮭꮮꮯꮰꮱꮲꮳꮴꮵꮶꮷꮸꮹꮺ" \o
        "ꮻꮼꮽꮾꮿᏸᏹᏺᏻᏼᏽაბგდევზთიკლმნოპჟრსტუფ" \o
        "ქღყშჩცძწჭხჯჰჱჲჳჴჵჶჷჸჹჺჽჾჿẁẃẅẇẉẋẍ" \o
        "ẏẑẓẕßạảấầẩẫậắằẳẵặẹẻẽếềểễệỉịọỏốồổ" \o
        "ỗộớờởỡợụủứừửữựỳỵỷỹỻỽỿᾀᾁᾂᾃᾄᾅᾆᾇᾐᾑᾒ" \o
        "ᾓᾔᾕᾖᾗᾠᾡᾢᾣᾤᾥᾦᾧᾰᾱᾳῃῐῑῠῡῥ" \o
        "ῳↄⓐⓑⓒⓓⓔⓕⓖⓗⓘⓙⓚⓛⓜⓝⓞⓟⓠⓡⓢⓣⓤⓥⓦⓧⓨⓩ" \o
        "ⲁⲃⲅⲇⲉⲋⲍⲏⲑⲓⲕⲗⲙⲛⲝⲟⲡⲣⲥⲧⲩⲫⲭⲯⲱⲳⲵⲷⲹⲻⲽⲿ" \o
        "ⳁⳃⳅⳇⳉⳋⳍⳏⳑⳓⳕⳗⳙⳛⳝⳟⳡⳣⳬⳮⳳꚁꚃꚅꚇꚉꚋꚍꚏꚑꚓꚕ" \o
        "ꚗꚙꚛꞁꞃꞅꞇꞌꞑꞓꞗꞙꞛꞝꞟꞡꞣꞥꞧꞩʞʇʝꞵꞷ" \o
        "ꞹꞻꞽꞿꟁꟃꞔʂᶎꟈꟊꟑꟗꟙꟶÿƞƚƀʉʌϳրց" \o
        "ւփքօֆ"
  IN  [ch \in {SubSeq(upper, k, k) : k \in 1..Len(upper)} |->
         LET k == CHOOSE j \in 1..Len(upper) : SubSeq(upper, j, j) = ch
         IN  SubSeq(lower, k, k)]

LowerChar(ch) == IF ch \in DOMAIN LowerTable THEN LowerTable[ch] ELSE ch

\* the cased characters: the letters that are upper, lower or title case
Cased ==
  LET cased ==
        "ABCDEFGHIJKLMNOPQRSTUVWXYZabcdef" \o
        "ghijklmnopqrstuvwxyzªµºÀÁÂÃÄÅÆÇÈ" \o
        "ÉÊËÌÍÎÏÐÑÒÓÔÕÖØÙÚÛÜÝÞßàáâãäåæçèé" \o
        "êëìíîïðñòóôõöøùúûüýþÿƀƁƂƃƄƅƆƇƈƉƊ" \o
        "ƋƌƍƎƏƐƑƒƓƔƕƖƗƘƙƚƛƜƝƞƟƠơƢƣƤƥƦƧƨƩƪ" \o
        "ƫƬƭƮƯưƱƲƳƴƵƶƷƸƹƺƼƽƾƿǄǅǆǇǈǉǊǋǌǍǎǏ" \o
        "ǐǑǒǓǔǕǖǗǘǙǚǛǜǝǞǟǠǡǢǣǤǥǦǧǨǩǪǫǬǭǮǯ" \o
        "ǰǱǲǳǴǵǶǷǸǹǺǻǼǽǾǿʀʁʂʃʄʅʆʇʈʉʊʋʌʍʎʏ" \o
        "ʐʑʒʓʕʖʗʘʙʚʛʜʝʞʟʠʡʢʣʤʥʦʧʨʩʪʫʬʭʮʯʰ" \o
        "ʱʲʳʴʵʶʷʸˀˁˠˡˢˣˤΆΈΉΊΌΎΏΐΑΒΓΔΕΖΗΘΙ" \o
        "ΚΛΜΝΞΟΠΡΣΤΥΦΧΨΩΪΫάέήίΰαβγδεζηθικ" \o
        "λμνξοπρςστυφχψωϊϋόύώϏϐϑϒϓϔϕϖϗϘϙϚ" \o
        "ϛϜϝϞϟϠϡϢϣϤϥϦϧϨϩϪϫϬϭϮϯϰϱϲϳϴϵϷϸϹϺϻ" \o
        "ϼϽϾϿҀҁҊҋҌҍҎҏҐґҒғҔҕҖҗҘҙҚқҜҝҞҟҠҡҢң" \o
        "ҤҥҦҧҨҩҪҫҬҭҮүҰұҲҳҴҵҶҷҸҹҺһҼҽҾҿӀӁӂӃ" \o
        "ӄӅӆӇӈӉӊӋӌӍӎӏӐӑӒӓӔӕӖӗӘәӚӛӜӝӞӟӠӡӢӣ" \o
        "ӤӥӦӧӨөӪӫӬӭӮӯӰӱӲӳӴӵӶӷӸӹӺӻӼӽӾӿրցւփ" \o
        "քօֆևֈႠႡႢႣႤႥႦႧႨႩႪႫႬႭႮႯႰႱႲႳႴႵႶႷႸႹႺ" \o
        "ႻႼႽႾႿჀჁჂჃჄჅჇჍაბგდევზთიკლმნოპჟრსტ" \o
        "უფქღყშჩცძწჭხჯჰჱჲჳჴჵჶჷჸჹჺჽჾჿᎠᎡᎢᎣᎤ" \o
        "ᎥᎦᎧᎨᎩᎪᎫᎬᎭᎮᎯᎰᎱᎲᎳᎴᎵᎶᎷᎸᎹᎺᎻᎼᎽᎾᎿᏀᏁᏂᏃᏄ" \o
        "ᏅᏆᏇᏈᏉᏊᏋᏌᏍᏎᏏᏐᏑᏒᏓᏔᏕᏖᏗᏘᏙᏚᏛᏜᏝᏞᏟᏠᏡᏢᏣᏤ" \o
        "ᏥᏦᏧᏨᏩᏪᏫᏬᏭᏮᏯᏰᏱᏲᏳᏴᏵᏸᏹᏺᏻᏼᏽᲀᲁᲂᲃᲄᲅᲆᲇᲈ" \o
        "ᲐᲑᲒᲓᲔᲕᲖᲗᲘᲙᲚᲛᲜᲝᲞᲟᲠᲡᲢᲣᲤᲥᲦᲧᲨᲩᲪᲫᲬᲭᲮᲯ" \o
        "ᲰᲱᲲᲳᲴᲵᲶᲷᲸᲹᲺᲽᲾᲿᶀᶁᶂᶃᶄᶅᶆᶇᶈᶉᶊᶋᶌᶍᶎᶏᶐᶑ" \o
        "ᶒᶓᶔᶕᶖᶗᶘᶙᶚᶛᶜᶝᶞᶟᶠᶡᶢᶣᶤᶥᶦᶧᶨᶩᶪᶫᶬᶭᶮᶯᶰᶱ" \o
        "ᶲᶳᶴᶵᶶᶷᶸᶹᶺᶻᶼᶽᶾᶿẀẁẂẃẄẅẆẇẈẉẊẋẌẍẎẏẐẑ" \o
        "ẒẓẔẕẖẗẘẙẚẛẜẝẞẟẠạẢảẤấẦầẨẩẪẫẬậẮắẰằ" \o
        "ẲẳẴẵẶặẸẹẺẻẼẽẾếỀềỂểỄễỆệỈỉỊịỌọỎỏỐố" \o
        "ỒồỔổỖỗỘộỚớỜờỞởỠỡỢợỤụỦủỨứỪừỬửỮữỰự" \o
        "ỲỳỴỵỶỷỸỹỺỻỼỽỾỿᾀᾁᾂᾃᾄᾅᾆᾇᾈᾉᾊᾋᾌᾍᾎᾏᾐᾑ" \o
        "ᾒᾓᾔᾕᾖᾗᾘᾙᾚᾛᾜᾝᾞᾟᾠᾡᾢᾣᾤᾥᾦᾧᾨᾩᾪᾫᾬᾭᾮᾯᾰᾱ" \o
        "ᾲᾳᾴᾶᾷᾸᾹᾺΆᾼιῂῃῄῆῇῈΈῊΉῌῐῑῒΐῖῗῘῙῚΊῠ" \o
        "ῡῢΰῤῥῦῧῨῩῪΎῬῲῳῴῶῷῸΌῺΏῼₐₑₒₓₔₕₖₗₘₙ" \o
        "ₚₛₜↃↄⒶⒷⒸⒹⒺⒻⒼⒽⒾⒿⓀⓁⓂⓃⓄⓅⓆⓇⓈⓉⓊⓋⓌⓍⓎⓏⓐ" \o
        "ⓑⓒⓓⓔⓕⓖⓗⓘⓙⓚⓛⓜⓝⓞⓟⓠⓡⓢⓣⓤⓥⓦⓧⓨⓩⲀⲁⲂⲃⲄⲅⲆ" \o
        "ⲇⲈⲉⲊⲋⲌⲍⲎⲏⲐⲑⲒⲓⲔⲕⲖⲗⲘⲙⲚⲛⲜⲝⲞⲟⲠⲡⲢⲣⲤⲥⲦ" \o
        "ⲧⲨⲩⲪⲫⲬⲭⲮⲯⲰⲱⲲⲳⲴⲵⲶⲷⲸⲹⲺⲻⲼⲽⲾⲿⳀⳁⳂⳃⳄⳅⳆ" \o
        "ⳇⳈⳉⳊⳋⳌⳍⳎⳏⳐⳑⳒⳓⳔⳕⳖⳗⳘⳙⳚⳛⳜⳝⳞⳟⳠⳡⳢⳣⳤⳫⳬ" \o
        "ⳭⳮⳲⳳꚀꚁꚂꚃꚄꚅꚆꚇꚈꚉꚊꚋꚌꚍꚎꚏꚐꚑꚒꚓꚔꚕꚖꚗꚘꚙꚚꚛ" \o
        "ꚜꚝꞀꞁꞂꞃꞄꞅꞆꞇꞋꞌꞍꞎꞐꞑꞒꞓꞔꞕꞖꞗꞘꞙꞚꞛꞜꞝꞞꞟꞠꞡ" \o
        "ꞢꞣꞤꞥꞦꞧꞨꞩꞪꞫꞬꞭꞮꞯꞰꞱꞲꞳꞴꞵꞶꞷꞸꞹꞺꞻꞼꞽꞾꞿꟀꟁ" \o
        "ꟂꟃꟄꟅꟆꟇꟈꟉꟊꟐꟑꟓꟕꟖꟗꟘꟙꟵꟶꟸꟹꟺꮀꮁꮂꮃꮄꮅꮆꮇꮈꮉ" \o
        "ꮊꮋꮌꮍꮎꮏꮐꮑꮒꮓꮔꮕꮖꮗꮘꮙꮚꮛꮜꮝꮞꮟꮠꮡꮢꮣꮤꮥꮦꮧꮨꮩ" \o
        "ꮪꮫꮬꮭꮮꮯꮰꮱꮲꮳꮴꮵꮶꮷꮸꮹꮺꮻꮼꮽꮾꮿ" \o
        "" \o
        "" \o
        "" \o
        ""
  IN  {SubSeq(cased, k, k) : k \in 1..Len(cased)}

\* the characters that case mapping looks through: apostrophe, full stop,
\* colon, circumflex, the soft hyphen, the combining marks and
\* the modifier letters
CaseIgnorable ==
  LET ignorable ==
        "'.:^¨­¯´·¸ʰʱʲʳʴʵʶʷʸʹʺʻʼʽʾʿˀˁ˂˃˄˅" \o
        "ˆˇˈˉˊˋˌˍˎˏːˑ˒˓˔˕˖˗˘˙˚˛˜˝˞˟ˠˡˢˣˤ˥" \o
        "˦˧˨˩˪˫ˬ˭ˮ˯˰˱˲˳˴˵˶˷˸˹˺˻˼˽˾˿΄΅·҃҄҅" \o
        "҆҇҈҉֑֖֛֢֣֤֥֦֧֪֚֒֓֔֕֗֘֙֜֝֞֟֠֡֨֩֫֬" \o
        "ְֱֲֳִֵֶַָׇֹֺֻּֽֿׁׂׅ֭֮֯ׄ״ۖۗۘۙۚۛۜ۝" \o
        "ۣ۟۠ۡۢۤۥۦ۪ۭۧۨ۫۬ަާިީުޫެޭޮޯް߫߬߭߮߯߰߱" \o
        "߲߳ߴߵߺ߽࢈࢐࢑࢙࢚࢛࢘࢜࢝࢞࢟ࣉ࣏࣐࣑࣒࣓࣊࣋࣌࣍࣎ࣔࣕࣖࣗ" \o
        "ࣘࣙࣚࣛࣜࣝࣞࣟ࣠࣡࣢ࣰࣱࣲࣣࣦࣩ࣭࣮࣯ࣶࣤࣥࣧࣨ࣪࣫࣬ࣳࣴࣵࣷ" \o
        "ࣹࣺࣸࣻࣼࣽࣾࣿঁ়ুূৃৄ্ৢৣ৾ઁં઼ુૂૃૄૅેૈ્ૢૣૺ" \o
        "ૻૼ૽૾૿ஂீ்ಁ಼ಿೆೌ್ೢೣඁ්ිීුූັິີຶື຺ຸູົຼ" \o
        "ໆ່້໊໋໌ໍ྄ཱྀྀྂྃ྆྇ྍྎྏྐྑྒྒྷྔྕྖྗྙྚྛྜྜྷྞྟ" \o
        "ྠྡྡྷྣྤྥྦྦྷྨྩྪྫྫྷྭྮྯྰྱྲླྴྵྶྷྸྐྵྺྻྼ࿆ႂႅ" \o
        "ႆႍႝჼ឴឵ិីឹឺុូួំ៉៊់៌៍៎៏័៑្៓ៗ៝ᢅᢆᢩᪧ᪰" \o
        "᪵᪶᪷᪸᪹᪺᪽᪱᪲᪳᪴᪻᪼᪾ᪿᫀ᫃᫄᫊᫁᫂᫅᫆᫇᫈᫉᫋ᫌᫍᫎᮀᮁ" \o
        "ᮢᮣᮤᮥᮨᮩ᮫ᮬᮭ᯦ᯨᯩᯭᯯᯰᯱ᳔᳕᳖᳗᳘᳙᳜᳝᳞᳟᳐᳑᳒᳚᳛᳠" \o
        "᳢᳣᳤᳥᳦᳧᳨᳭᳴᳸᳹ᶛᶜᶝᶞᶟᶠᶡᶢᶣᶤᶥᶦᶧᶨᶩᶪᶫᶬᶭᶮᶯ" \o
        "ᶰᶱᶲᶳᶴᶵᶶᶷᶸᶹᶺᶻᶼᶽᶾᶿ᷎᷂᷊᷏᷀᷁᷃᷄᷅᷆᷇᷈᷉᷋᷌᷍" \o
        "᷐᷑᷒ᷓᷔᷕᷖᷗᷘᷙᷚᷛᷜᷝᷞᷟᷠᷡᷢᷣᷤᷥᷦᷧᷨᷩᷪᷫᷬᷭᷮᷯ" \o
        "᷺᷹᷽᷿᷷᷸ᷰᷱᷲᷳᷴ᷵᷻᷾᷶᷼᾽᾿῀῁῍῎῏῝῞῟῭΅`´῾ₐ" \o
        "ₑₒₓₔₕₖₗₘₙₚₛₜ⃒⃓⃘⃙⃚⃐⃑⃔⃕⃖⃗⃛⃜⃝⃞⃟⃠⃡⃢⃣" \o
        "⃤⃥⃦⃪⃫⃨⃬⃭⃮⃯⃧⃩⃰⳯⳰⳱ⷠⷡⷢⷣⷤⷥⷦⷧⷨⷩⷪⷫⷬⷭⷮⷯ" \o
        "゙゚ⷰⷱⷲⷳⷴⷵⷶⷷⷸⷹⷺⷻⷼⷽⷾⷿ゛゜ゝゞーヽヾꓸꓹꓺꓻꓼꓽꚜ" \o
        "ꚝꚞꚟ꛰꛱ꞈ꞉꞊ꟲꟳꟴꟸꟹ꣄ꣅ꣠꣡꣢꣣꣤꣥꣦꣧꣨꣩꣪꣫꣬꣭꣮꣯꣰" \o
        "꣱ꣿꦀꦁꦂ꦳ꦶꦷꦸꦹꦼꦽꧏꧥꧦꪴꪰꪲꪳꪷꪸꪾ꪿꫁ꫝꫬꫭꫳꫴ꫶ꯥꯨ" \o
        "꯭﮲﮳﮴﮵﮶﮷﮸﮹﮺﮻﮼﮽﮾﮿﯀﯁﯂﻿ﾞﾟ￣￹" \o
        "￺￻"
  IN  {SubSeq(ignorable, k, k) : k \in 1..Len(ignorable)}

\* the lower-case form of the character at index i of a text: a capital sigma
\* that ends a word becomes the final sigma.  It ends a word when the nearest
\* character before it that is not case-ignorable is cased and the nearest
\* such character after it, if any, is not
LowerAt(text, i) ==
  IF /\ SubSeq(text, i, i) = "Σ"
     /\ \E j \in 1..(i - 1) :
           /\ SubSeq(text, j, j) \in Cased
           /\ SubSeq(text, j, j) \notin CaseIgnorable
           /\ \A k \in (j + 1)..(i - 1) : SubSeq(text, k, k) \in CaseIgnorable
     /\ \A j \in (i + 1)..Len(text) :
           \/ SubSeq(text, j, j) \notin Cased
           \/ SubSeq(text, j, j) \in CaseIgnorable
           \/ \E k \in (i + 1)..(j - 1) :
                 SubSeq(text, k, k) \notin CaseIgnorable
  THEN "ς"
  ELSE LowerChar(SubSeq(text, i, i))

\* text.lower(), character by character
RECURSIVE LowerFrom(_, _, _)
LowerFrom(text, lo, hi) ==
  IF lo > hi THEN ""
  ELSE IF lo = hi THEN LowerAt(text, lo)
  ELSE LET mid == (lo + hi) \div 2
       IN  LowerFrom(text, lo, mid) \o LowerFrom(text, mid + 1, hi)

Lower(text) == LowerFrom(text, 1, Len(text))

\* text.split('\n')
RECURSIVE SplitFrom(_, _)
SplitFrom(text, start) ==
  LET j == Find(text, "\n", start)
  IN  IF j = 0 THEN <<SubSeq(text, start, Len(text))>>
      ELSE <<SubSeq(text, start, j - 1)>> \o SplitFrom(text, j + 1)

Split(text) == SplitFrom(text, 1)

\* a test of the text without strip(): white space counts as content
Strip_omitted(text) == text /= ""

\* text.strip() is non-empty: some character is not white space.  White space
\* is what str.isspace() accepts: space, \n, \t, \r, \f, \v (0x0b), the
\* separators 0x1c..0x1f, NEL (0x85), the no-break space (0xa0) and the ogham
\* space mark (0x1680); the other spaces (U+2000..U+200A, U+2028, U+2029,
\* U+202F, U+205F, U+3000) cannot be written in a string of a module and so
\* occur in no text here
Strip(text) ==
  \E i \in 1..Len(text) :
     SubSeq(text, i, i) \notin {" ", "\n", "\t", "\r", "\f", "", "", "", "", "", "", " ", " "}

Min(a, b) == IF a < b THEN a ELSE b
Max(a, b) == IF a > b THEN a ELSE b

(***************************************************************************)
(* direct_detection.py: the vulnerability decision list                    *)
(***************************************************************************)

\* a SQL rule that looks for the upper-case keyword in the lower-cased text
sql_injection_rule_lowered(java_code) ==
  \/ /\ (In("+", Lower(java_code)) \/ In("concat", Lower(java_code)))
     /\ In("SELECT", Lower(java_code))
  \/ (In("\"SELECT", Lower(java_code)) /\ In("+", java_code))

\* a SQL rule that accepts the keyword in upper case only
sql_injection_rule_upper_case(java_code) ==
  \/ /\ (In("+", java_code) \/ In("concat", Lower(java_code)))
     /\ In("SELECT", java_code)
  \/ (In("\"SELECT", java_code) /\ In("+", java_code))

\* the predicate of each branch of detect_vulnerabilities_directly
sql_injection_rule(java_code) ==
  \/ /\ (In("+", java_code) \/ In("concat", Lower(java_code)))
     /\ (In("SELECT", java_code) \/ In("select", Lower(java_code)))
  \/ (In("\"SELECT", java_code) /\ In("+", java_code))

xss_rule(java_code) ==
  \/ (In("@GetMapping", java_code) /\ In("return \"<", java_code))
  \/ (In("<div>", java_code) /\ In("+", java_code))

path_traversal_rule(java_code) ==
  \/ /\ (In("File(", java_code) \/ In("Paths.get", java_code))
     /\ In("+", java_code)
  \/ (In("uploads", Lower(java_code)) /\ In("+", java_code))

xxe_rule(java_code) ==
  /\ (In("DocumentBuilderFactory", java_code) \/ In("parseXML", java_code))
  /\ ~In("setFeature", java_code)

authentication_bypass_rule(java_code) ==
  \/ In("password.length()", java_code)
  \/ In(".equals(\"admin\")", java_code)
  \/ (In(".length() >", java_code) /\ In("password", Lower(java_code)))

\* a deserialization rule that looks for the class name in lower-cased text
insecure_deserialization_rule_lowered(java_code) ==
  /\ In("ObjectInputStream", Lower(java_code))
  /\ In(".readObject()", java_code)

insecure_deserialization_rule(java_code) ==
  In("ObjectInputStream", java_code) /\ In(".readObject()", java_code)

secure_state_rule(java_code) ==
  /\ (In("BCryptPasswordEncoder", java_code) \/ In("encoder.encode", java_code))
  /\ In("@Valid", java_code)

\* the description text of each branch
Description(vulnerability, confidence) ==
  CASE vulnerability = "sql_injection" ->
         "SQL Injection vulnerability detected - unsafe string concatenation in SQL query"
    [] vulnerability = "xss" ->
         "XSS vulnerability detected - unescaped HTML output"
    [] vulnerability = "path_traversal" ->
         "Path Traversal vulnerability detected - unsafe file path handling"
    [] vulnerability = "xxe" ->
         "XXE vulnerability detected - unprotected XML parsing"
    [] vulnerability = "authentication_bypass" ->
         "Authentication Bypass vulnerability detected - weak authentication logic"
    [] vulnerability = "insecure_deserialization" ->
         "Insecure Deserialization vulnerability detected - unsafe object deserialization"
    [] vulnerability = "none" /\ confidence = 95 ->
         "Secure implementation detected - proper password hashing and validation"
    [] OTHER -> "No obvious vulnerabilities detected"

\* the dict a branch returns; confidence in hundredths
Finding(vulnerability, severity, confidence) ==
  [vulnerability |-> vulnerability, severity |-> severity,
   confidence |-> confidence,
   description |-> Description(vulnerability, confidence)]

\* a decision list that tests XXE before SQL injection
detect_vulnerabilities_xxe_first(java_code) ==
  IF xxe_rule(java_code) THEN Finding("xxe", "MEDIUM", 85)
  ELSE IF sql_injection_rule(java_code)
  THEN Finding("sql_injection", "HIGH", 92)
  ELSE IF xss_rule(java_code) THEN Finding("xss", "HIGH", 90)
  ELSE IF path_traversal_rule(java_code)
  THEN Finding("path_traversal", "HIGH", 88)
  ELSE IF authentication_bypass_rule(java_code)
  THEN Finding("authentication_bypass", "CRITICAL", 87)
  ELSE IF insecure_deserialization_rule(java_code)
  THEN Finding("insecure_deserialization", "CRITICAL", 89)
  ELSE IF secure_state_rule(java_code) THEN Finding("none", "LOW", 95)
  ELSE Finding("none", "LOW", 50)

\* a decision list whose XXE branch reports severity HIGH
detect_vulnerabilities_xxe_high(java_code) ==
  IF sql_injection_rule(java_code) THEN Finding("sql_injection", "HIGH", 92)
  ELSE IF xss_rule(java_code) THEN Finding("xss", "HIGH", 90)
  ELSE IF path_traversal_rule(java_code)
  THEN Finding("path_traversal", "HIGH", 88)
  ELSE IF xxe_rule(java_code) THEN Finding("xxe", "HIGH", 85)
  ELSE IF authentication_bypass_rule(java_code)
  THEN Finding("authentication_bypass", "CRITICAL", 87)
  ELSE IF insecure_deserialization_rule(java_code)
  THEN Finding("insecure_deserialization", "CRITICAL", 89)
  ELSE IF secure_state_rule(java_code) THEN Finding("none", "LOW", 95)
  ELSE Finding("none", "LOW", 50)

\* a decision list that tests the secure state before the six vulnerabilities
detect_vulnerabilities_secure_first(java_code) ==
  IF secure_state_rule(java_code) THEN Finding("none", "LOW", 95)
  ELSE IF sql_injection_rule(java_code)
  THEN Finding("sql_injection", "HIGH", 92)
  ELSE IF xss_rule(java_code) THEN Finding("xss", "HIGH", 90)
  ELSE IF path_traversal_rule(java_code)
  THEN Finding("path_traversal", "HIGH", 88)
  ELSE IF xxe_rule(java_code) THEN Finding("xxe", "MEDIUM", 85)
  ELSE IF authentication_bypass_rule(java_code)
  THEN Finding("authentication_bypass", "CRITICAL", 87)
  ELSE IF insecure_deserialization_rule(java_code)
  THEN Finding("insecure_deserialization", "CRITICAL", 89)
  ELSE Finding("none", "LOW", 50)

detect_vulnerabilities_directly(java_code) ==
  IF sql_injection_rule(java_code) THEN Finding("sql_injection", "HIGH", 92)
  ELSE IF xss_rule(java_code) THEN Finding("xss", "HIGH", 90)
  ELSE IF path_traversal_rule(java_code)
  THEN Finding("path_traversal", "HIGH", 88)
  ELSE IF xxe_rule(java_code) THEN Finding("xxe", "MEDIUM", 85)
  ELSE IF authentication_bypass_rule(java_code)
  THEN Finding("authentication_bypass", "CRITICAL", 87)
  ELSE IF insecure_deserialization_rule(java_code)
  THEN Finding("insecure_deserialization", "CRITICAL", 89)
  ELSE IF secure_state_rule(java_code) THEN Finding("none", "LOW", 95)
  ELSE Finding("none", "LOW", 50)

(***************************************************************************)
(* api_server.py: extract_code_metrics                                     *)
(***************************************************************************)

is_if_line(l) == In(" if ", l) \/ In(" if(", l) \/ In("if(", l)
is_for_line(l) == In(" for ", l) \/ In(" for(", l) \/ In("for(", l)
is_while_line(l) == In(" while ", l) \/ In(" while(", l)
is_switch_line(l) == In("switch", l)
is_non_empty_line(l) == Strip(l)
is_comment_line(l) == In("//", l) \/ In("/*", l)

\* the lines, the lower-cased text and the basic counts
basic_counts(java_code) ==
  LET lines == Split(java_code)
  IN  [lines |-> lines,
       non_empty_lines |->
         Cardinality({i \in 1..Len(lines) : is_non_empty_line(lines[i])}),
       code_lower |-> Lower(java_code),
       num_classes |-> Count(java_code, "class "),
       num_interfaces |-> Count(java_code, "interface "),
       num_methods |-> Count(java_code, "public ")
                         + Count(java_code, "private ")
                         + Count(java_code, "protected "),
       num_static |-> Count(java_code, "static "),
       num_if |-> Cardinality({i \in 1..Len(lines) : is_if_line(lines[i])}),
       num_for |-> Cardinality({i \in 1..Len(lines) : is_for_line(lines[i])}),
       num_while |->
         Cardinality({i \in 1..Len(lines) : is_while_line(lines[i])}),
       num_switch |->
         Cardinality({i \in 1..Len(lines) : is_switch_line(lines[i])})]

\* the pattern booleans that the cohesion cascade reads; c = basic_counts
is_singleton(java_code, c) ==
  LET has_private_constructor ==
        In("private ", java_code) /\ In("()", java_code)
      has_static_instance ==
        \/ (In("static", java_code) /\ In("instance", c.code_lower))
        \/ In("private static", java_code)
      has_get_instance ==
        In("getInstance", java_code) \/ In("instance()", java_code)
  IN  has_private_constructor /\ has_static_instance /\ has_get_instance

is_factory(java_code, c) ==
  LET has_factory_keywords ==
        \E kw \in {"getCar", "getProduct", "createButton", "create",
                   "Factory"} : In(kw, java_code)
      has_switch_return ==
        In("switch", java_code) /\ In("return new", java_code)
      has_if_return == c.num_if >= 2 /\ In("return new", java_code)
  IN  \/ (has_factory_keywords /\ (has_switch_return \/ has_if_return))
      \/ /\ In("Factory", java_code)
         /\ In("return new", java_code)
         /\ c.num_static >= 1

is_builder(java_code, c) ==
  LET has_builder_class ==
        /\ (In("Builder", java_code) \/ In("builder", c.code_lower))
        /\ c.num_classes >= 2
      has_build_method ==
        In("build()", java_code) \/ In(".build()", java_code)
      has_fluent_api == In("return this", java_code)
      has_chaining == Count(java_code, "return this") >= 2
  IN  \/ (has_builder_class /\ has_build_method /\ has_fluent_api)
      \/ (has_chaining /\ has_build_method)

is_prototype(java_code, c) ==
  LET has_clone ==
        \/ In(".clone()", java_code)
        \/ In("clone()", java_code)
        \/ (In("@Override", java_code) /\ In("clone", c.code_lower))
      has_cloneable ==
        In("Cloneable", java_code) \/ In("implements Cloneable", java_code)
      \* ('public ' in java_code or 'private ') is always truthy
      has_copy_constructor ==
        (In("public ", java_code) \/ TRUE) /\ In("(this)", java_code)
  IN  has_clone \/ has_cloneable
        \/ (has_copy_constructor /\ c.num_methods >= 1)

is_abstract_factory(java_code, c) ==
  LET has_abstract_factory ==
        \/ In("AbstractFactory", java_code)
        \/ (In("abstract", c.code_lower) /\ In("Factory", java_code))
      has_factory_interface ==
        In("interface", java_code) /\ In("Factory", java_code)
      has_multiple_create ==
        Count(java_code, "create") >= 2 \/ Count(java_code, "Factory") >= 2
  IN  \/ has_abstract_factory
      \/ (has_factory_interface /\ has_multiple_create
            /\ c.num_interfaces >= 1)

is_adapter(java_code, c) ==
  LET has_adapter == In("Adapter", java_code)
      has_adaptee ==
        In("adaptee", c.code_lower) \/ In("wrapped", c.code_lower)
      has_delegation ==
        \/ In("adaptee.", java_code)
        \/ In(".playVlc", java_code)
        \/ In("legacy.", java_code)
  IN  \/ has_adapter
      \/ (has_adaptee /\ In("implements", java_code))
      \/ (has_delegation /\ In("implements", java_code))

is_decorator(java_code, c) ==
  LET has_decorator == In("Decorator", java_code)
      has_component ==
        In("component", c.code_lower) \/ In("Component", java_code)
      wraps_and_calls ==
        In("component.", java_code) /\ In("implements", java_code)
  IN  \/ has_decorator
      \/ (has_component /\ wraps_and_calls /\ c.num_classes >= 1)

is_proxy(java_code, c) ==
  LET has_proxy == In("Proxy", java_code)
      has_real_subject ==
        /\ In("real", c.code_lower)
        /\ (In("Subject", java_code) \/ In("Image", java_code))
      has_check_access ==
        \/ In("checkAccess", java_code)
        \/ (In("check", c.code_lower) /\ In("access", c.code_lower))
  IN  \/ has_proxy
      \/ (has_real_subject /\ has_check_access)
      \/ (In("real.", c.code_lower) /\ In("implements", java_code))

is_composite(java_code, c) ==
  LET has_composite == In("Composite", java_code)
      has_children ==
        In("children", c.code_lower) \/ In("List<Component>", java_code)
      has_add_method == In(".add(", java_code) /\ has_children
      has_loop_children ==
        In("for", java_code) /\ In("children", c.code_lower)
  IN  has_composite \/ (has_children /\ has_add_method) \/ has_loop_children

is_facade(java_code, c) ==
  LET has_facade == In("Facade", java_code)
      has_multiple_systems ==
        Count(java_code, "System") >= 2 \/ Count(java_code, ".") >= 5
      simplifies == c.num_methods >= 2 /\ has_multiple_systems
  IN  has_facade \/ (simplifies /\ c.num_classes <= 3)

is_bridge(java_code, c) ==
  LET has_bridge == In("Bridge", java_code)
      has_implementation ==
        In("implementation", c.code_lower) \/ In("DrawingAPI", java_code)
      has_abstract_shape ==
        /\ In("abstract", java_code)
        /\ (In("Shape", java_code) \/ In("class", java_code))
  IN  has_bridge \/ (has_implementation /\ has_abstract_shape)

is_flyweight(java_code, c) ==
  LET has_flyweight == In("Flyweight", java_code)
      has_cache ==
        \/ In("cache", c.code_lower)
        \/ In("Map<", java_code)
        \/ In("HashMap", java_code)
      has_get_or_create ==
        \/ In("containsKey", java_code)
        \/ (In("get", java_code) /\ In("put", java_code))
  IN  has_flyweight \/ (has_cache /\ has_get_or_create)

is_strategy(java_code, c) ==
  LET has_strategy == In("Strategy", java_code)
      has_context == In("Context", java_code)
      has_set_strategy ==
        In("setStrategy", java_code) \/ In("strategy", c.code_lower)
  IN  has_strategy \/ (has_context /\ has_set_strategy)

is_observer(java_code, c) ==
  LET has_observer == In("Observer", java_code)
      has_observers_list ==
        In("List<Observer>", java_code) \/ In("observers", c.code_lower)
      has_notify == In("notify", c.code_lower) \/ In("update", c.code_lower)
      has_attach ==
        In("attach", c.code_lower) \/ In("register", c.code_lower)
  IN  has_observer \/ (has_observers_list /\ (has_notify \/ has_attach))

is_command(java_code, c) ==
  LET has_command == In("Command", java_code)
      has_execute == In("execute()", java_code) \/ In("execute(", java_code)
      has_receiver ==
        \/ In("receiver", c.code_lower)
        \/ (In("Light", java_code) /\ In("Command", java_code))
  IN  has_command \/ (has_execute /\ has_receiver)

has_autowired(java_code) == In("@Autowired", java_code)

\* a service boolean that requires @Transactional with @Autowired
is_service_layer_transactional(java_code, c) ==
  In("@Transactional", java_code) /\ has_autowired(java_code)

is_service_layer(java_code, c) ==
  LET has_service == In("@Service", java_code)
      has_transactional == In("@Transactional", java_code)
  IN  has_service \/ (has_transactional /\ has_autowired(java_code))

has_rest_controller(java_code) ==
  In("@RestController", java_code) \/ In("@Controller", java_code)

is_spring_mvc(java_code, c) ==
  LET has_mapping ==
        \/ In("@GetMapping", java_code)
        \/ In("@PostMapping", java_code)
        \/ In("@RequestMapping", java_code)
      has_path_variable ==
        In("@PathVariable", java_code) \/ In("@RequestBody", java_code)
  IN  has_rest_controller(java_code) /\ (has_mapping \/ has_path_variable)

is_restful_api(java_code, c) ==
  LET has_api_methods ==
        Count(java_code, "@GetMapping") + Count(java_code, "@PostMapping")
          + Count(java_code, "@PutMapping")
  IN  \/ has_api_methods >= 2
      \/ (has_rest_controller(java_code) /\ In("@RequestMapping", java_code))

has_exception_handler(java_code) == In("@ExceptionHandler", java_code)

has_controller_advice(java_code) ==
  In("@RestControllerAdvice", java_code) \/ In("@ControllerAdvice", java_code)

is_exception_handling(java_code, c) ==
  LET has_try_catch == In("try", java_code) /\ In("catch", java_code)
      has_throws == In("throws", java_code)
  IN  \/ has_exception_handler(java_code)
      \/ has_controller_advice(java_code)
      \/ has_try_catch
      \/ has_throws

is_spring_error(java_code, c) ==
  \/ has_controller_advice(java_code)
  \/ (has_exception_handler(java_code) /\ In("@", java_code))

is_reactive(java_code, c) ==
  LET has_mono == In("Mono<", java_code)
      has_flux == In("Flux<", java_code)
      has_webclient ==
        In("WebClient", java_code) \/ In("webClient", java_code)
      has_reactive_ops ==
        In(".bodyToMono", java_code) \/ In(".retrieve()", java_code)
  IN  (has_mono \/ has_flux) /\ (has_webclient \/ has_reactive_ops)

\* a cascade that tests the builder branch before the factory branch
cohesion_builder_first(java_code, c) ==
  IF is_singleton(java_code, c) THEN 92
  ELSE IF is_builder(java_code, c) THEN 88
  ELSE IF is_factory(java_code, c) THEN 85
  ELSE IF is_prototype(java_code, c) THEN 82
  ELSE IF is_abstract_factory(java_code, c) THEN 80
  ELSE IF is_adapter(java_code, c) \/ is_decorator(java_code, c)
            \/ is_proxy(java_code, c) THEN 78
  ELSE IF is_composite(java_code, c) \/ is_facade(java_code, c)
            \/ is_bridge(java_code, c) THEN 75
  ELSE IF is_flyweight(java_code, c) THEN 73
  ELSE IF is_strategy(java_code, c) \/ is_observer(java_code, c)
            \/ is_command(java_code, c) THEN 77
  ELSE IF is_service_layer(java_code, c) THEN 75
  ELSE IF is_spring_mvc(java_code, c) \/ is_restful_api(java_code, c) THEN 70
  ELSE IF is_exception_handling(java_code, c) \/ is_spring_error(java_code, c)
  THEN 80
  ELSE IF is_reactive(java_code, c) THEN 76
  ELSE 60

\* the cohesion cascade, in hundredths
cohesion(java_code, c) ==
  IF is_singleton(java_code, c) THEN 92
  ELSE IF is_factory(java_code, c) THEN 85
  ELSE IF is_builder(java_code, c) THEN 88
  ELSE IF is_prototype(java_code, c) THEN 82
  ELSE IF is_abstract_factory(java_code, c) THEN 80
  ELSE IF is_adapter(java_code, c) \/ is_decorator(java_code, c)
            \/ is_proxy(java_code, c) THEN 78
  ELSE IF is_composite(java_code, c) \/ is_facade(java_code, c)
            \/ is_bridge(java_code, c) THEN 75
  ELSE IF is_flyweight(java_code, c) THEN 73
  ELSE IF is_strategy(java_code, c) \/ is_observer(java_code, c)
            \/ is_command(java_code, c) THEN 77
  ELSE IF is_service_layer(java_code, c) THEN 75
  ELSE IF is_spring_mvc(java_code, c) \/ is_restful_api(java_code, c) THEN 70
  ELSE IF is_exception_handling(java_code, c) \/ is_spring_error(java_code, c)
  THEN 80
  ELSE IF is_reactive(java_code, c) THEN 76
  ELSE 60

\* a sum that adds every 'case ' of a switch, without the - 1
cyclomatic_every_case(java_code, c) ==
  1 + c.num_if + c.num_for + c.num_while + c.num_switch
    + (IF c.num_switch > 0 THEN Count(java_code, "case ") ELSE 0)
    + (IF In("try", java_code) /\ In("catch", java_code)
       THEN Count(java_code, "catch") ELSE 0)

\* the unclamped cyclomatic sum
cyclomatic(java_code, c) ==
  1 + c.num_if + c.num_for + c.num_while + c.num_switch
    + (IF c.num_switch > 0 THEN Count(java_code, "case ") - 1 ELSE 0)
    + (IF In("try", java_code) /\ In("catch", java_code)
       THEN Count(java_code, "catch") ELSE 0)

\* a ratio that tests the prepared-statement branch first
input_validation_ratio_query_first(java_code, c) ==
  IF In("?", java_code)
       /\ (In("query", c.code_lower) \/ In("SELECT", java_code)) THEN 7
  ELSE IF In("@Valid", java_code) \/ In("validate", c.code_lower)
            \/ In("sanitize", c.code_lower) THEN 8
  ELSE IF In("StringEscapeUtils", java_code) \/ In("normalize", c.code_lower)
  THEN 6
  ELSE 1

\* in tenths: 8 for 0.8, 7 for 0.7, 6 for 0.6, 1 for 0.1
input_validation_ratio(java_code, c) ==
  IF In("@Valid", java_code) \/ In("validate", c.code_lower)
       \/ In("sanitize", c.code_lower) THEN 8
  ELSE IF In("?", java_code)
            /\ (In("query", c.code_lower) \/ In("SELECT", java_code)) THEN 7
  ELSE IF In("StringEscapeUtils", java_code) \/ In("normalize", c.code_lower)
  THEN 6
  ELSE 1

\* a metrics row whose test coverage is taken from the source
extract_code_metrics_measured(java_code) ==
  LET c == basic_counts(java_code)
  IN  [cyclomatic_complexity |-> Min(50, cyclomatic(java_code, c)),
       cognitive_complexity |-> Min(100, cyclomatic(java_code, c) * 2),
       lines_of_code |-> c.non_empty_lines,
       num_methods |-> Max(1, c.num_methods),
       num_classes |-> Max(1, c.num_classes),
       code_duplication |-> 0,
       test_coverage |-> IF In("catch", java_code) THEN 70 ELSE 50,
       comment_ratio |->
         [num |-> Cardinality({i \in 1..Len(c.lines) :
                                 is_comment_line(c.lines[i])}),
          den |-> Max(1, Len(c.lines))],
       cohesion |-> cohesion(java_code, c),
       input_validation_ratio |-> input_validation_ratio(java_code, c)]

\* a metrics row whose cognitive complexity is not capped at 100
extract_code_metrics_cognitive_uncapped(java_code) ==
  LET c == basic_counts(java_code)
  IN  [cyclomatic_complexity |-> Min(50, cyclomatic(java_code, c)),
       cognitive_complexity |-> cyclomatic(java_code, c) * 2,
       lines_of_code |-> c.non_empty_lines,
       num_methods |-> Max(1, c.num_methods),
       num_classes |-> Max(1, c.num_classes),
       code_duplication |-> 0,
       test_coverage |-> 50,
       comment_ratio |->
         [num |-> Cardinality({i \in 1..Len(c.lines) :
                                 is_comment_line(c.lines[i])}),
          den |-> Max(1, Len(c.lines))],
       cohesion |-> cohesion(java_code, c),
       input_validation_ratio |-> input_validation_ratio(java_code, c)]

\* The metrics row the /analyze handler and the scores read.  Ratios are
\* kept exact: code_duplication, test_coverage and cohesion in hundredths,
\* comment_ratio as the pair numerator / denominator.
extract_code_metrics(java_code) ==
  LET c == basic_counts(java_code)
  IN  [cyclomatic_complexity |-> Min(50, cyclomatic(java_code, c)),
       cognitive_complexity |-> Min(100, cyclomatic(java_code, c) * 2),
       lines_of_code |-> c.non_empty_lines,
       num_methods |-> Max(1, c.num_methods),
       num_classes |-> Max(1, c.num_classes),
       code_duplication |-> 0,
       test_coverage |-> 50,
       comment_ratio |->
         [num |-> Cardinality({i \in 1..Len(c.lines) :
                                 is_comment_line(c.lines[i])}),
          den |-> Max(1, Len(c.lines))],
       cohesion |-> cohesion(java_code, c),
       input_validation_ratio |-> input_validation_ratio(java_code, c)]

(***************************************************************************)
(* direct_detection.py: the 48 pattern rules                               *)
(***************************************************************************)

\* the lines, the lower-cased text and the counts the pattern rules share
direct_counts(java_code) ==
  LET lines == Split(java_code)
  IN  [lines |-> lines,
       code_lower |-> Lower(java_code),
       num_if |-> Cardinality({i \in 1..Len(lines) : is_if_line(lines[i])}),
       num_static |-> Count(java_code, "static "),
       num_classes |-> Count(java_code, "class "),
       num_methods |-> Count(java_code, "public ")
                         + Count(java_code, "private ")
                         + Count(java_code, "protected "),
       num_interfaces |-> Count(java_code, "interface "),
       num_for |-> Cardinality({i \in 1..Len(lines) : is_for_line(lines[i])})]

\* a singleton rule that accepts only a 'private static' instance field
singleton_rule_private_static(java_code, d) ==
  LET has_private_constructor ==
        In("private ", java_code) /\ In("()", java_code)
      has_static_instance == In("private static", java_code)
      has_get_instance ==
        In("getInstance", java_code) \/ In("instance()", java_code)
  IN  has_private_constructor /\ has_static_instance /\ has_get_instance

\* rules 1-5, creational
singleton_rule(java_code, d) ==
  LET has_private_constructor ==
        In("private ", java_code) /\ In("()", java_code)
      has_static_instance ==
        \/ (In("static", java_code) /\ In("instance", d.code_lower))
        \/ In("private static", java_code)
      has_get_instance ==
        In("getInstance", java_code) \/ In("instance()", java_code)
  IN  has_private_constructor /\ has_static_instance /\ has_get_instance

factory_rule(java_code, d) ==
  LET has_factory_keywords ==
        \E kw \in {"getCar", "getProduct", "createButton", "create",
                   "Factory"} : In(kw, java_code)
      has_switch_return ==
        In("switch", java_code) /\ In("return new", java_code)
      has_if_return == d.num_if >= 2 /\ In("return new", java_code)
  IN  \/ (has_factory_keywords /\ (has_switch_return \/ has_if_return))
      \/ /\ In("Factory", java_code)
         /\ In("return new", java_code)
         /\ d.num_static >= 1

builder_rule(java_code, d) ==
  LET has_builder_class ==
        /\ (In("Builder", java_code) \/ In("builder", d.code_lower))
        /\ d.num_classes >= 2
      has_build_method ==
        In("build()", java_code) \/ In(".build()", java_code)
      has_fluent_api == In("return this", java_code)
      has_chaining == Count(java_code, "return this") >= 2
  IN  \/ (has_builder_class /\ has_build_method /\ has_fluent_api)
      \/ (has_chaining /\ has_build_method)

prototype_rule(java_code, d) ==
  LET has_clone ==
        \/ In(".clone()", java_code)
        \/ In("clone()", java_code)
        \/ (In("@Override", java_code) /\ In("clone", d.code_lower))
      has_cloneable ==
        In("Cloneable", java_code) \/ In("implements Cloneable", java_code)
      \* ('public ' in java_code or 'private ') is always truthy
      has_copy_constructor ==
        (In("public ", java_code) \/ TRUE) /\ In("(this)", java_code)
  IN  has_clone \/ has_cloneable
        \/ (has_copy_constructor /\ d.num_methods >= 1)

abstract_factory_rule(java_code, d) ==
  LET has_abstract_factory ==
        \/ In("AbstractFactory", java_code)
        \/ (In("abstract", d.code_lower) /\ In("Factory", java_code))
      has_factory_interface ==
        In("interface", java_code) /\ In("Factory", java_code)
      has_multiple_create ==
        Count(java_code, "create") >= 2 \/ Count(java_code, "Factory") >= 2
  IN  \/ has_abstract_factory
      \/ (has_factory_interface /\ has_multiple_create
            /\ d.num_interfaces >= 1)

\* rules 6-12, structural
adapter_rule(java_code, d) ==
  LET has_adapter == In("Adapter", java_code)
      has_adaptee ==
        In("adaptee", d.code_lower) \/ In("wrapped", d.code_lower)
      has_delegation ==
        \/ In("adaptee.", java_code)
        \/ In(".playVlc", java_code)
        \/ In("legacy.", java_code)
  IN  \/ has_adapter
      \/ (has_adaptee /\ In("implements", java_code))
      \/ (has_delegation /\ In("implements", java_code))

decorator_rule(java_code, d) ==
  LET has_decorator == In("Decorator", java_code)
      has_component ==
        In("component", d.code_lower) \/ In("Component", java_code)
      wraps_and_calls ==
        In("component.", java_code) /\ In("implements", java_code)
  IN  \/ has_decorator
      \/ (has_component /\ wraps_and_calls /\ d.num_classes >= 1)

proxy_rule(java_code, d) ==
  LET has_proxy == In("Proxy", java_code)
      has_real_subject ==
        /\ In("real", d.code_lower)
        /\ (In("Subject", java_code) \/ In("Image", java_code))
      has_check_access ==
        \/ In("checkAccess", java_code)
        \/ (In("check", d.code_lower) /\ In("access", d.code_lower))
  IN  \/ has_proxy
      \/ (has_real_subject /\ has_check_access)
      \/ (In("real.", d.code_lower) /\ In("implements", java_code))

composite_rule(java_code, d) ==
  LET has_composite == In("Composite", java_code)
      has_children ==
        In("children", d.code_lower) \/ In("List<Component>", java_code)
      has_add_method == In(".add(", java_code) /\ has_children
      has_loop_children ==
        In("for", java_code) /\ In("children", d.code_lower)
  IN  has_composite \/ (has_children /\ has_add_method) \/ has_loop_children

facade_rule(java_code, d) == In("Facade", java_code)

bridge_rule(java_code, d) ==
  LET has_bridge == In("Bridge", java_code)
      has_implementation ==
        In("implementation", d.code_lower) \/ In("DrawingAPI", java_code)
      has_abstract_shape ==
        /\ In("abstract", java_code)
        /\ (In("Shape", java_code) \/ In("class", java_code))
  IN  has_bridge \/ (has_implementation /\ has_abstract_shape)

flyweight_rule(java_code, d) ==
  LET has_flyweight == In("Flyweight", java_code)
      has_cache ==
        \/ In("cache", d.code_lower)
        \/ In("Map<", java_code)
        \/ In("HashMap", java_code)
      has_get_or_create ==
        \/ In("containsKey", java_code)
        \/ (In("get", java_code) /\ In("put", java_code))
  IN  has_flyweight \/ (has_cache /\ has_get_or_create)

\* rules 13-23, behavioral
strategy_rule(java_code, d) ==
  LET has_strategy == In("Strategy", java_code)
      has_context == In("Context", java_code)
      has_set_strategy ==
        In("setStrategy", java_code) \/ In("strategy", d.code_lower)
  IN  has_strategy \/ (has_context /\ has_set_strategy)

observer_rule(java_code, d) ==
  LET has_observer == In("Observer", java_code)
      has_observers_list ==
        In("List<Observer>", java_code) \/ In("observers", d.code_lower)
      has_notify == In("notify", d.code_lower) \/ In("update", d.code_lower)
      has_attach ==
        In("attach", d.code_lower) \/ In("register", d.code_lower)
  IN  has_observer \/ (has_observers_list /\ (has_notify \/ has_attach))

command_rule(java_code, d) ==
  LET has_command == In("Command", java_code)
      has_execute == In("execute()", java_code) \/ In("execute(", java_code)
      has_receiver ==
        \/ In("receiver", d.code_lower)
        \/ (In("Light", java_code) /\ In("Command", java_code))
  IN  has_command \/ (has_execute /\ has_receiver)

template_method_rule(java_code, d) ==
  LET has_template == In("Template", java_code)
      has_abstract_method == In("abstract", java_code) /\ d.num_methods >= 2
      has_final_method ==
        In("final", java_code) /\ In("process", d.code_lower)
  IN  \/ has_template
      \/ (has_abstract_method /\ In("abstract void", java_code))
      \/ has_final_method

iterator_rule(java_code, d) ==
  LET has_iterator == In("Iterator", java_code)
      has_has_next == In("hasNext()", java_code)
      has_next_method == In("next()", java_code)
      implements_iterator == In("implements Iterator", java_code)
  IN  has_iterator \/ implements_iterator
        \/ (has_has_next /\ has_next_method)

state_rule(java_code, d) ==
  LET has_state == In("State", java_code) /\ d.num_classes >= 1
      has_set_state ==
        In("setState", java_code) \/ In("changeState", java_code)
      has_state_interface == In("interface State", java_code)
  IN  has_state \/ has_set_state \/ has_state_interface

chain_of_responsibility_rule(java_code, d) ==
  LET has_chain == In("Chain", java_code) \/ In("Handler", java_code)
      has_next_handler ==
        In("nextHandler", java_code) \/ In("setNext", java_code)
      has_handle_request ==
        In("handleRequest", java_code) \/ In("handle(", java_code)
  IN  has_chain \/ (has_next_handler /\ has_handle_request)

mediator_rule(java_code, d) ==
  LET has_mediator == In("Mediator", java_code)
      has_chat == In("Chat", java_code) /\ In("Mediator", java_code)
      has_send_message == In("sendMessage", java_code)
  IN  has_mediator \/ (has_chat /\ has_send_message)

memento_rule(java_code, d) ==
  LET has_memento == In("Memento", java_code)
      has_caretaker == In("Caretaker", java_code)
      has_save_restore ==
        /\ (In("saveState", java_code) \/ In("save", d.code_lower))
        /\ In("restore", d.code_lower)
      has_originator == In("Originator", java_code)
  IN  has_memento \/ has_caretaker \/ has_originator \/ has_save_restore

visitor_rule(java_code, d) ==
  LET has_visitor == In("Visitor", java_code)
      has_accept == In("accept(", java_code) \/ In("accept (", java_code)
      has_visit == In("visit(", java_code)
  IN  has_visitor \/ (has_accept /\ has_visit)

interpreter_rule(java_code, d) ==
  LET has_interpreter ==
        In("Interpreter", java_code) \/ In("Expression", java_code)
      has_interpret ==
        In("interpret()", java_code) \/ In("interpret(", java_code)
      has_number_expr ==
        In("NumberExpression", java_code) \/ In("AddExpression", java_code)
  IN  has_interpreter \/ has_interpret \/ has_number_expr

\* rules 24-30, Spring framework
dependency_injection_rule(java_code, d) ==
  In("@Autowired", java_code) \/ In("@Inject", java_code)

direct_has_rest_controller(java_code) ==
  In("@RestController", java_code) \/ In("@Controller", java_code)

spring_mvc_rule(java_code, d) ==
  LET has_mapping ==
        \/ In("@GetMapping", java_code)
        \/ In("@PostMapping", java_code)
        \/ In("@RequestMapping", java_code)
  IN  direct_has_rest_controller(java_code) /\ has_mapping

restful_api_rule(java_code, d) ==
  LET has_api_methods ==
        Count(java_code, "@GetMapping") + Count(java_code, "@PostMapping")
          + Count(java_code, "@PutMapping")
  IN  \/ has_api_methods >= 2
      \/ /\ direct_has_rest_controller(java_code)
         /\ In("@RequestMapping", java_code)

repository_rule(java_code, d) ==
  \/ In("@Repository", java_code)
  \/ In("JpaRepository", java_code)
  \/ In("CrudRepository", java_code)

\* a service rule written as an elif of the dependency-injection rule
service_layer_rule_elif(java_code, d) ==
  In("@Service", java_code) /\ ~dependency_injection_rule(java_code, d)

service_layer_rule(java_code, d) == In("@Service", java_code)

dto_rule(java_code, d) ==
  LET has_dto_name == In("DTO", java_code)
      has_getters_setters ==
        /\ (In("getUsername", java_code) \/ In("get", java_code))
        /\ (In("setUsername", java_code) \/ In("set", java_code))
  IN  \/ has_dto_name
      \/ (has_getters_setters /\ d.num_methods >= 2 /\ d.num_methods <= 10)

aop_rule(java_code, d) ==
  \/ In("@Aspect", java_code)
  \/ /\ (In("@Before", java_code) \/ In("@After", java_code))
     /\ In("JoinPoint", java_code)

\* rules 31-36, core Java
oop_fundamentals_rule(java_code, d) ==
  /\ (In("extends", java_code) \/ In("@Override", java_code))
  /\ d.num_classes >= 1

collections_framework_rule(java_code, d) ==
  LET has_list == In("ArrayList", java_code) \/ In("List<", java_code)
      has_set == In("HashSet", java_code) \/ In("Set<", java_code)
      has_map == In("HashMap", java_code) \/ In("Map<", java_code)
      has_collection_ops == In(".add(", java_code) \/ In(".put(", java_code)
  IN  (has_list \/ has_set \/ has_map) /\ has_collection_ops

exception_handling_rule(java_code, d) ==
  \/ In("@ExceptionHandler", java_code)
  \/ In("@RestControllerAdvice", java_code)
  \/ In("@ControllerAdvice", java_code)

conditional_control_flow_rule(java_code, d) ==
  \/ (In("switch", java_code) /\ In("case", java_code))
  \/ (In("else if", java_code) /\ d.num_if >= 1)

loops_and_iteration_rule(java_code, d) ==
  d.num_for >= 1 \/ In("forEach", java_code)

basic_programming_constructs_rule(java_code, d) ==
  d.num_methods <= 5 /\ d.num_classes <= 2

\* rules 37-38, modern Java
optional_null_safety_rule(java_code, d) ==
  \/ In("Optional<", java_code)
  \/ In("Optional.", java_code)
  \/ In(".orElse", java_code)

functional_programming_rule(java_code, d) ==
  \/ In("->", java_code)
  \/ In(".stream()", java_code)
  \/ In("Collectors", java_code)

\* rules 39-42, Spring Boot ecosystem
spring_boot_error_handling_rule(java_code, d) ==
  \/ In("@ControllerAdvice", java_code)
  \/ (In("@ExceptionHandler", java_code) /\ In("@", java_code))

reactive_programming_rule(java_code, d) ==
  /\ (In("Mono<", java_code) \/ In("Flux<", java_code))
  /\ (In("WebClient", java_code) \/ In("webClient", java_code))

utility_libraries_rule(java_code, d) ==
  In("Utils", java_code) \/ In("Helper", java_code)

lombok_jpa_annotations_rule(java_code, d) ==
  \/ In("@Data", java_code)
  \/ In("@Entity", java_code)
  \/ In("@Id", java_code)
  \/ In("@GeneratedValue", java_code)

\* rules 43-45, web development
core_annotations_di_rule(java_code, d) ==
  /\ \/ In("@Component", java_code)
     \/ In("@Service", java_code)
     \/ In("@Repository", java_code)
  /\ (In("@Autowired", java_code) \/ In("@Value", java_code))

web_mvc_annotations_rule(java_code, d) ==
  In("@Controller", java_code) \/ In("@RequestParam", java_code)

http_request_processing_rule(java_code, d) ==
  \/ In("@RequestBody", java_code)
  \/ In("@ResponseBody", java_code)
  \/ In("ResponseEntity", java_code)

\* rule 46, API documentation
openapi_documentation_rule(java_code, d) ==
  \/ In("@Api", java_code)
  \/ In("@ApiOperation", java_code)
  \/ In("@ApiResponse", java_code)

\* rules 47-48, database integration
spring_data_jpa_rule(java_code, d) ==
  \/ In("@Entity", java_code)
  \/ In("JpaRepository", java_code)
  \/ In("@Query", java_code)

batch_processing_etl_rule(java_code, d) ==
  \/ In("@EnableBatchProcessing", java_code)
  \/ In("JobBuilderFactory", java_code)
  \/ In(".chunk(", java_code)

\* detected.append({...}) when the rule holds; confidence in hundredths
Append1(holds, pattern, confidence, theory) ==
  IF holds
  THEN <<[pattern |-> pattern, confidence |-> confidence, theory |-> theory]>>
  ELSE <<>>

\* a detector that reports the basic constructs only when no other rule
\* fired
detect_patterns_directly_basic_fallback(java_code) ==
  LET d == direct_counts(java_code)
      others ==
        Append1(singleton_rule(java_code, d),
                   "singleton_design_pattern", 95, "Singleton Design Pattern")
        \o Append1(factory_rule(java_code, d),
                   "factory_design_pattern", 92, "Factory Design Pattern")
        \o Append1(builder_rule(java_code, d),
                   "builder_design_pattern", 93, "Builder Design Pattern")
        \o Append1(prototype_rule(java_code, d),
                   "prototype_design_pattern", 90, "Prototype Design Pattern")
        \o Append1(abstract_factory_rule(java_code, d),
                   "abstract_factory_design_pattern", 88,
                   "Abstract Factory Design Pattern")
        \o Append1(adapter_rule(java_code, d),
                   "adapter_design_pattern", 91, "Adapter Design Pattern")
        \o Append1(decorator_rule(java_code, d),
                   "decorator_design_pattern", 90, "Decorator Design Pattern")
        \o Append1(proxy_rule(java_code, d),
                   "proxy_design_pattern", 89, "Proxy Design Pattern")
        \o Append1(composite_rule(java_code, d),
                   "composite_design_pattern", 88, "Composite Design Pattern")
        \o Append1(facade_rule(java_code, d),
                   "facade_design_pattern", 87, "Facade Design Pattern")
        \o Append1(bridge_rule(java_code, d),
                   "bridge_design_pattern", 86, "Bridge Design Pattern")
        \o Append1(flyweight_rule(java_code, d),
                   "flyweight_design_pattern", 85, "Flyweight Design Pattern")
        \o Append1(strategy_rule(java_code, d),
                   "strategy_design_pattern", 90, "Strategy Design Pattern")
        \o Append1(observer_rule(java_code, d),
                   "observer_design_pattern", 89, "Observer Design Pattern")
        \o Append1(command_rule(java_code, d),
                   "command_design_pattern", 88, "Command Design Pattern")
        \o Append1(template_method_rule(java_code, d),
                   "template_method_design_pattern", 87,
                   "Template Method Design Pattern")
        \o Append1(iterator_rule(java_code, d),
                   "iterator_design_pattern", 92, "Iterator Design Pattern")
        \o Append1(state_rule(java_code, d),
                   "state_design_pattern", 86, "State Design Pattern")
        \o Append1(chain_of_responsibility_rule(java_code, d),
                   "chain_of_responsibility_design_pattern", 85,
                   "Chain Of Responsibility Design Pattern")
        \o Append1(mediator_rule(java_code, d),
                   "mediator_design_pattern", 84, "Mediator Design Pattern")
        \o Append1(memento_rule(java_code, d),
                   "memento_design_pattern", 86, "Memento Design Pattern")
        \o Append1(visitor_rule(java_code, d),
                   "visitor_design_pattern", 88, "Visitor Design Pattern")
        \o Append1(interpreter_rule(java_code, d),
                   "interpreter_design_pattern", 87, "Interpreter Design Pattern")
        \o Append1(dependency_injection_rule(java_code, d),
                   "dependency_injection", 94, "Dependency Injection")
        \o Append1(spring_mvc_rule(java_code, d),
                   "spring_mvc_pattern", 93, "Spring MVC Pattern")
        \o Append1(restful_api_rule(java_code, d),
                   "restful_api_pattern", 92, "RESTful API Pattern")
        \o Append1(repository_rule(java_code, d),
                   "repository_pattern", 93, "Repository Pattern")
        \o Append1(service_layer_rule(java_code, d),
                   "service_layer_pattern", 91, "Service Layer Pattern")
        \o Append1(dto_rule(java_code, d), "dto_pattern", 89, "DTO Pattern")
        \o Append1(aop_rule(java_code, d), "aop_pattern", 92, "AOP Pattern")
        \o Append1(oop_fundamentals_rule(java_code, d),
                   "oop_fundamentals", 88, "OOP Fundamentals")
        \o Append1(collections_framework_rule(java_code, d),
                   "collections_framework", 90, "Collections Framework")
        \o Append1(exception_handling_rule(java_code, d),
                   "exception_handling", 92, "Exception Handling")
        \o Append1(conditional_control_flow_rule(java_code, d),
                   "conditional_control_flow", 86, "Conditional Control Flow")
        \o Append1(loops_and_iteration_rule(java_code, d),
                   "loops_and_iteration", 85, "Loops And Iteration")
        \o Append1(optional_null_safety_rule(java_code, d),
                   "optional_null_safety", 91, "Optional Null Safety")
        \o Append1(functional_programming_rule(java_code, d),
                   "functional_programming", 90, "Functional Programming")
        \o Append1(spring_boot_error_handling_rule(java_code, d),
                   "spring_boot_error_handling", 93, "Spring Boot Error Handling")
        \o Append1(reactive_programming_rule(java_code, d),
                   "reactive_programming", 92, "Reactive Programming")
        \o Append1(utility_libraries_rule(java_code, d),
                   "utility_libraries", 84, "Utility Libraries")
        \o Append1(lombok_jpa_annotations_rule(java_code, d),
                   "lombok_jpa_annotations", 91, "Lombok JPA Annotations")
        \o Append1(core_annotations_di_rule(java_code, d),
                   "core_annotations_di", 90, "Core Annotations DI")
        \o Append1(web_mvc_annotations_rule(java_code, d),
                   "web_mvc_annotations", 89, "Web MVC Annotations")
        \o Append1(http_request_processing_rule(java_code, d),
                   "http_request_processing", 88, "HTTP Request Processing")
        \o Append1(openapi_documentation_rule(java_code, d),
                   "openapi_documentation", 91, "OpenAPI Documentation")
        \o Append1(spring_data_jpa_rule(java_code, d),
                   "spring_data_jpa", 92, "Spring Data JPA")
        \o Append1(batch_processing_etl_rule(java_code, d),
                   "batch_processing_etl", 89, "Batch Processing ETL")
  IN  IF others = <<>>
      THEN Append1(basic_programming_constructs_rule(java_code, d),
                   "basic_programming_constructs", 80,
                   "Basic Programming Constructs")
      ELSE others

detect_patterns_directly(java_code) ==
  LET d == direct_counts(java_code)
  IN  Append1(singleton_rule(java_code, d),
              "singleton_design_pattern", 95, "Singleton Design Pattern")
   \o Append1(factory_rule(java_code, d),
              "factory_design_pattern", 92, "Factory Design Pattern")
   \o Append1(builder_rule(java_code, d),
              "builder_design_pattern", 93, "Builder Design Pattern")
   \o Append1(prototype_rule(java_code, d),
              "prototype_design_pattern", 90, "Prototype Design Pattern")
   \o Append1(abstract_factory_rule(java_code, d),
              "abstract_factory_design_pattern", 88,
              "Abstract Factory Design Pattern")
   \o Append1(adapter_rule(java_code, d),
              "adapter_design_pattern", 91, "Adapter Design Pattern")
   \o Append1(decorator_rule(java_code, d),
              "decorator_design_pattern", 90, "Decorator Design Pattern")
   \o Append1(proxy_rule(java_code, d),
              "proxy_design_pattern", 89, "Proxy Design Pattern")
   \o Append1(composite_rule(java_code, d),
              "composite_design_pattern", 88, "Composite Design Pattern")
   \o Append1(facade_rule(java_code, d),
              "facade_design_pattern", 87, "Facade Design Pattern")
   \o Append1(bridge_rule(java_code, d),
              "bridge_design_pattern", 86, "Bridge Design Pattern")
   \o Append1(flyweight_rule(java_code, d),
              "flyweight_design_pattern", 85, "Flyweight Design Pattern")
   \o Append1(strategy_rule(java_code, d),
              "strategy_design_pattern", 90, "Strategy Design Pattern")
   \o Append1(observer_rule(java_code, d),
              "observer_design_pattern", 89, "Observer Design Pattern")
   \o Append1(command_rule(java_code, d),
              "command_design_pattern", 88, "Command Design Pattern")
   \o Append1(template_method_rule(java_code, d),
              "template_method_design_pattern", 87,
              "Template Method Design Pattern")
   \o Append1(iterator_rule(java_code, d),
              "iterator_design_pattern", 92, "Iterator Design Pattern")
   \o Append1(state_rule(java_code, d),
              "state_design_pattern", 86, "State Design Pattern")
   \o Append1(chain_of_responsibility_rule(java_code, d),
              "chain_of_responsibility_design_pattern", 85,
              "Chain Of Responsibility Design Pattern")
   \o Append1(mediator_rule(java_code, d),
              "mediator_design_pattern", 84, "Mediator Design Pattern")
   \o Append1(memento_rule(java_code, d),
              "memento_design_pattern", 86, "Memento Design Pattern")
   \o Append1(visitor_rule(java_code, d),
              "visitor_design_pattern", 88, "Visitor Design Pattern")
   \o Append1(interpreter_rule(java_code, d),
              "interpreter_design_pattern", 87, "Interpreter Design Pattern")
   \o Append1(dependency_injection_rule(java_code, d),
              "dependency_injection", 94, "Dependency Injection")
   \o Append1(spring_mvc_rule(java_code, d),
              "spring_mvc_pattern", 93, "Spring MVC Pattern")
   \o Append1(restful_api_rule(java_code, d),
              "restful_api_pattern", 92, "RESTful API Pattern")
   \o Append1(repository_rule(java_code, d),
              "repository_pattern", 93, "Repository Pattern")
   \o Append1(service_layer_rule(java_code, d),
              "service_layer_pattern", 91, "Service Layer Pattern")
   \o Append1(dto_rule(java_code, d), "dto_pattern", 89, "DTO Pattern")
   \o Append1(aop_rule(java_code, d), "aop_pattern", 92, "AOP Pattern")
   \o Append1(oop_fundamentals_rule(java_code, d),
              "oop_fundamentals", 88, "OOP Fundamentals")
   \o Append1(collections_framework_rule(java_code, d),
              "collections_framework", 90, "Collections Framework")
   \o Append1(exception_handling_rule(java_code, d),
              "exception_handling", 92, "Exception Handling")
   \o Append1(conditional_control_flow_rule(java_code, d),
              "conditional_control_flow", 86, "Conditional Control Flow")
   \o Append1(loops_and_iteration_rule(java_code, d),
              "loops_and_iteration", 85, "Loops And Iteration")
   \o Append1(basic_programming_constructs_rule(java_code, d),
              "basic_programming_constructs", 80,
              "Basic Programming Constructs")
   \o Append1(optional_null_safety_rule(java_code, d),
              "optional_null_safety", 91, "Optional Null Safety")
   \o Append1(functional_programming_rule(java_code, d),
              "functional_programming", 90, "Functional Programming")
   \o Append1(spring_boot_error_handling_rule(java_code, d),
              "spring_boot_error_handling", 93, "Spring Boot Error Handling")
   \o Append1(reactive_programming_rule(java_code, d),
              "reactive_programming", 92, "Reactive Programming")
   \o Append1(utility_libraries_rule(java_code, d),
              "utility_libraries", 84, "Utility Libraries")
   \o Append1(lombok_jpa_annotations_rule(java_code, d),
              "lombok_jpa_annotations", 91, "Lombok JPA Annotations")
   \o Append1(core_annotations_di_rule(java_code, d),
              "core_annotations_di", 90, "Core Annotations DI")
   \o Append1(web_mvc_annotations_rule(java_code, d),
              "web_mvc_annotations", 89, "Web MVC Annotations")
   \o Append1(http_request_processing_rule(java_code, d),
              "http_request_processing", 88, "HTTP Request Processing")
   \o Append1(openapi_documentation_rule(java_code, d),
              "openapi_documentation", 91, "OpenAPI Documentation")
   \o Append1(spring_data_jpa_rule(java_code, d),
              "spring_data_jpa", 92, "Spring Data JPA")
   \o Append1(batch_processing_etl_rule(java_code, d),
              "batch_processing_etl", 89, "Batch Processing ETL")

(***************************************************************************)
(* api_server.py: formatting helpers                                       *)
(***************************************************************************)

\* str.title() on one character: its title-case form, of one character or
\* more ('ß' gives 'Ss'), where it differs from the character
TitleTable ==
  LET lower ==
        "abcdefghijklmnopqrstuvwxyzµßàáâã" \o
        "äåæçèéêëìíîïðñòóôõöøùúûüýþÿƀƃƅƈƌ" \o
        "ƒƕƙƚƞơƣƥƨƭưƴƶƹƽƿǄǆǇǉǊǌǎǐǒǔǖǘǚǜǝǟ" \o
        "ǡǣǥǧǩǫǭǯǰǱǳǵǹǻǽǿʀʂʃʇʈʉʊʋʌʒʝʞΐάέή" \o
        "ίΰαβγδεζηθικλμνξοπρςστυφχψωϊϋόύώ" \o
        "ϐϑϕϖϗϙϛϝϟϡϣϥϧϩϫϭϯϰϱϲϳϵϸϻҁҋҍҏґғҕҗ" \o
        "ҙқҝҟҡңҥҧҩҫҭүұҳҵҷҹһҽҿӂӄӆӈӊӌӎӏӑӓӕӗ" \o
        "әӛӝӟӡӣӥӧөӫӭӯӱӳӵӷӹӻӽӿրցւփքօֆևᏸᏹᏺᏻ" \o
        "ᏼᏽᲀᲁᲂᲃᲄᲅᲆᲇᲈᶎẁẃẅẇẉẋẍẏẑẓẕẖẗẘẙẚẛạảấ" \o
        "ầẩẫậắằẳẵặẹẻẽếềểễệỉịọỏốồổỗộớờởỡợụ" \o
        "ủứừửữựỳỵỷỹỻỽỿᾀᾁᾂᾃᾄᾅᾆᾇᾐᾑᾒᾓᾔᾕᾖᾗᾠᾡᾢ" \o
        "ᾣᾤᾥᾦᾧᾰᾱᾲᾳᾴᾶᾷιῂῃῄῆῇῐῑῒΐῖῗῠῡῢΰῤῥῦῧ" \o
        "ῲῳῴῶῷↄⓐⓑⓒⓓⓔⓕⓖⓗⓘⓙⓚⓛⓜⓝⓞⓟⓠⓡⓢⓣⓤⓥⓦⓧⓨⓩ" \o
        "ⲁⲃⲅⲇⲉⲋⲍⲏⲑⲓⲕⲗⲙⲛⲝⲟⲡⲣⲥⲧⲩⲫⲭⲯⲱⲳⲵⲷⲹⲻⲽⲿ" \o
        "ⳁⳃⳅⳇⳉⳋⳍⳏⳑⳓⳕⳗⳙⳛⳝⳟⳡⳣⳬⳮⳳꚁꚃꚅꚇꚉꚋꚍꚏꚑꚓꚕ" \o
        "ꚗꚙꚛꞁꞃꞅꞇꞌꞑꞓꞔꞗꞙꞛꞝꞟꞡꞣꞥꞧꞩꞵꞷꞹꞻꞽꞿꟁꟃꟈꟊꟑ" \o
        "ꟗꟙꟶꮀꮁꮂꮃꮄꮅꮆꮇꮈꮉꮊꮋꮌꮍꮎꮏꮐꮑꮒꮓꮔꮕꮖꮗꮘꮙꮚꮛꮜ" \o
        "ꮝꮞꮟꮠꮡꮢꮣꮤꮥꮦꮧꮨꮩꮪꮫꮬꮭꮮꮯꮰꮱꮲꮳꮴꮵꮶꮷꮸꮹꮺꮻꮼ" \o
        "ꮽꮾꮿ" \o
        "" \o
        "" \o
        ""
      title ==
        <<"A", "B", "C", "D", "E", "F", "G", "H",
          "I", "J", "K", "L", "M", "N", "O", "P",
          "Q", "R", "S", "T", "U", "V", "W", "X",
          "Y", "Z", "Μ", "Ss", "À", "Á", "Â", "Ã",
          "Ä", "Å", "Æ", "Ç", "È", "É", "Ê", "Ë",
          "Ì", "Í", "Î", "Ï", "Ð", "Ñ", "Ò", "Ó",
          "Ô", "Õ", "Ö", "Ø", "Ù", "Ú", "Û", "Ü",
          "Ý", "Þ", "", "", "Ƃ", "Ƅ", "Ƈ", "Ƌ",
          "Ƒ", "Ƕ", "Ƙ", "", "", "Ơ", "Ƣ", "Ƥ",
          "Ƨ", "Ƭ", "Ư", "Ƴ", "Ƶ", "Ƹ", "Ƽ", "Ƿ",
          "ǅ", "ǅ", "ǈ", "ǈ", "ǋ", "ǋ", "Ǎ", "Ǐ",
          "Ǒ", "Ǔ", "Ǖ", "Ǘ", "Ǚ", "Ǜ", "Ǝ", "Ǟ",
          "Ǡ", "Ǣ", "Ǥ", "Ǧ", "Ǩ", "Ǫ", "Ǭ", "Ǯ",
          "J", "ǲ", "ǲ", "Ǵ", "Ǹ", "Ǻ", "Ǽ", "Ǿ",
          "Ʀ", "Ʂ", "Ʃ", "Ʇ", "Ʈ", "", "Ʊ", "Ʋ",
          "", "Ʒ", "Ʝ", "Ʞ", "Ι", "Ά", "Έ", "Ή",
          "Ί", "Υ", "Α", "Β", "Γ", "Δ", "Ε", "Ζ",
          "Η", "Θ", "Ι", "Κ", "Λ", "Μ", "Ν", "Ξ",
          "Ο", "Π", "Ρ", "Σ", "Σ", "Τ", "Υ", "Φ",
          "Χ", "Ψ", "Ω", "Ϊ", "Ϋ", "Ό", "Ύ", "Ώ",
          "Β", "Θ", "Φ", "Π", "Ϗ", "Ϙ", "Ϛ", "Ϝ",
          "Ϟ", "Ϡ", "Ϣ", "Ϥ", "Ϧ", "Ϩ", "Ϫ", "Ϭ",
          "Ϯ", "Κ", "Ρ", "Ϲ", "", "Ε", "Ϸ", "Ϻ",
          "Ҁ", "Ҋ", "Ҍ", "Ҏ", "Ґ", "Ғ", "Ҕ", "Җ",
          "Ҙ", "Қ", "Ҝ", "Ҟ", "Ҡ", "Ң", "Ҥ", "Ҧ",
          "Ҩ", "Ҫ", "Ҭ", "Ү", "Ұ", "Ҳ", "Ҵ", "Ҷ",
          "Ҹ", "Һ", "Ҽ", "Ҿ", "Ӂ", "Ӄ", "Ӆ", "Ӈ",
          "Ӊ", "Ӌ", "Ӎ", "Ӏ", "Ӑ", "Ӓ", "Ӕ", "Ӗ",
          "Ә", "Ӛ", "Ӝ", "Ӟ", "Ӡ", "Ӣ", "Ӥ", "Ӧ",
          "Ө", "Ӫ", "Ӭ", "Ӯ", "Ӱ", "Ӳ", "Ӵ", "Ӷ",
          "Ӹ", "Ӻ", "Ӽ", "Ӿ", "", "", "", "",
          "", "", "", "ւ", "Ᏸ", "Ᏹ", "Ᏺ", "Ᏻ",
          "Ᏼ", "Ᏽ", "", "", "", "", "", "",
          "", "", "", "Ᶎ", "Ẁ", "Ẃ", "Ẅ", "Ẇ",
          "Ẉ", "Ẋ", "Ẍ", "Ẏ", "Ẑ", "Ẓ", "Ẕ", "H",
          "T", "W", "Y", "Aʾ", "", "Ạ", "Ả", "Ấ",
          "Ầ", "Ẩ", "Ẫ", "Ậ", "Ắ", "Ằ", "Ẳ", "Ẵ",
          "Ặ", "Ẹ", "Ẻ", "Ẽ", "Ế", "Ề", "Ể", "Ễ",
          "Ệ", "Ỉ", "Ị", "Ọ", "Ỏ", "Ố", "Ồ", "Ổ",
          "Ỗ", "Ộ", "Ớ", "Ờ", "Ở", "Ỡ", "Ợ", "Ụ",
          "Ủ", "Ứ", "Ừ", "Ử", "Ữ", "Ự", "Ỳ", "Ỵ",
          "Ỷ", "Ỹ", "Ỻ", "Ỽ", "Ỿ", "ᾈ", "ᾉ", "ᾊ",
          "ᾋ", "ᾌ", "ᾍ", "ᾎ", "ᾏ", "ᾘ", "ᾙ", "ᾚ",
          "ᾛ", "ᾜ", "ᾝ", "ᾞ", "ᾟ", "ᾨ", "ᾩ", "ᾪ",
          "ᾫ", "ᾬ", "ᾭ", "ᾮ", "ᾯ", "Ᾰ", "Ᾱ", "Ὰ",
          "ᾼ", "Ά", "Α", "Α", "Ι", "Ὴ", "ῌ", "Ή",
          "Η", "Η", "Ῐ", "Ῑ", "Ι", "Ι", "Ι", "Ι",
          "Ῠ", "Ῡ", "Υ", "Υ", "Ρ", "Ῥ", "Υ", "Υ",
          "Ὼ", "ῼ", "Ώ", "Ω", "Ω", "Ↄ", "Ⓐ", "Ⓑ",
          "Ⓒ", "Ⓓ", "Ⓔ", "Ⓕ", "Ⓖ", "Ⓗ", "Ⓘ", "Ⓙ",
          "Ⓚ", "Ⓛ", "Ⓜ", "Ⓝ", "Ⓞ", "Ⓟ", "Ⓠ", "Ⓡ",
          "Ⓢ", "Ⓣ", "Ⓤ", "Ⓥ", "Ⓦ", "Ⓧ", "Ⓨ", "Ⓩ",
          "Ⲁ", "Ⲃ", "Ⲅ", "Ⲇ", "Ⲉ", "Ⲋ", "Ⲍ", "Ⲏ",
          "Ⲑ", "Ⲓ", "Ⲕ", "Ⲗ", "Ⲙ", "Ⲛ", "Ⲝ", "Ⲟ",
          "Ⲡ", "Ⲣ", "Ⲥ", "Ⲧ", "Ⲩ", "Ⲫ", "Ⲭ", "Ⲯ",
          "Ⲱ", "Ⲳ", "Ⲵ", "Ⲷ", "Ⲹ", "Ⲻ", "Ⲽ", "Ⲿ",
          "Ⳁ", "Ⳃ", "Ⳅ", "Ⳇ", "Ⳉ", "Ⳋ", "Ⳍ", "Ⳏ",
          "Ⳑ", "Ⳓ", "Ⳕ", "Ⳗ", "Ⳙ", "Ⳛ", "Ⳝ", "Ⳟ",
          "Ⳡ", "Ⳣ", "Ⳬ", "Ⳮ", "Ⳳ", "Ꚁ", "Ꚃ", "Ꚅ",
          "Ꚇ", "Ꚉ", "Ꚋ", "Ꚍ", "Ꚏ", "Ꚑ", "Ꚓ", "Ꚕ",
          "Ꚗ", "Ꚙ", "Ꚛ", "Ꞁ", "Ꞃ", "Ꞅ", "Ꞇ", "Ꞌ",
          "Ꞑ", "Ꞓ", "Ꞔ", "Ꞗ", "Ꞙ", "Ꞛ", "Ꞝ", "Ꞟ",
          "Ꞡ", "Ꞣ", "Ꞥ", "Ꞧ", "Ꞩ", "Ꞵ", "Ꞷ", "Ꞹ",
          "Ꞻ", "Ꞽ", "Ꞿ", "Ꟁ", "Ꟃ", "Ꟈ", "Ꟊ", "Ꟑ",
          "Ꟗ", "Ꟙ", "Ꟶ", "Ꮀ", "Ꮁ", "Ꮂ", "Ꮃ", "Ꮄ",
          "Ꮅ", "Ꮆ", "Ꮇ", "Ꮈ", "Ꮉ", "Ꮊ", "Ꮋ", "Ꮌ",
          "Ꮍ", "Ꮎ", "Ꮏ", "Ꮐ", "Ꮑ", "Ꮒ", "Ꮓ", "Ꮔ",
          "Ꮕ", "Ꮖ", "Ꮗ", "Ꮘ", "Ꮙ", "Ꮚ", "Ꮛ", "Ꮜ",
          "Ꮝ", "Ꮞ", "Ꮟ", "Ꮠ", "Ꮡ", "Ꮢ", "Ꮣ", "Ꮤ",
          "Ꮥ", "Ꮦ", "Ꮧ", "Ꮨ", "Ꮩ", "Ꮪ", "Ꮫ", "Ꮬ",
          "Ꮭ", "Ꮮ", "Ꮯ", "Ꮰ", "Ꮱ", "Ꮲ", "Ꮳ", "Ꮴ",
          "Ꮵ", "Ꮶ", "Ꮷ", "Ꮸ", "Ꮹ", "Ꮺ", "Ꮻ", "Ꮼ",
          "Ꮽ", "Ꮾ", "Ꮿ", "Ɓ", "Ɔ", "Ɖ", "Ɗ", "Ə",
          "Ɛ", "Ɜ", "Ɠ", "Ɡ", "Ɣ", "Ɥ", "Ɦ", "Ɨ",
          "Ɩ", "Ɪ", "Ɬ", "Ɯ", "Ɲ", "Ɵ", "Ι", "Ͻ",
          "Ͼ", "Ͽ", "", "", "", "", "", "",
          "", "", "", "Ὰ", "Ά", "Ὲ", "Έ", "Ὴ",
          "Ή", "Ὶ", "Ί", "Ὸ", "Ό", "Ὺ", "Ύ", "Ὼ",
          "Ώ", "Ⴀ", "Ⴁ", "Ⴂ", "Ⴃ", "Ⴄ", "Ⴅ", "Ⴆ",
          "Ⴇ", "Ⴈ", "Ⴉ", "Ⴊ", "Ⴋ", "Ⴌ", "Ⴍ", "Ⴎ",
          "Ⴏ", "Ⴐ", "Ⴑ", "Ⴒ", "Ⴓ", "Ⴔ", "Ⴕ", "Ⴖ",
          "Ⴗ", "Ⴘ", "Ⴙ", "Ⴚ", "Ⴛ", "Ⴜ", "Ⴝ", "Ⴞ",
          "Ⴟ", "Ⴠ", "Ⴡ", "Ⴢ", "Ⴣ", "Ⴤ", "Ⴥ", "Ⴧ",
          "Ⴭ", "", "Ꭓ", "Ꭰ", "Ꭱ", "Ꭲ", "Ꭳ", "Ꭴ",
          "Ꭵ", "Ꭶ", "Ꭷ", "Ꭸ", "Ꭹ", "Ꭺ", "Ꭻ", "Ꭼ",
          "Ꭽ", "Ꭾ", "Ꭿ">>
  IN  [ch \in {SubSeq(lower, k, k) : k \in 1..Len(lower)} |->
         title[CHOOSE j \in 1..Len(lower) : SubSeq(lower, j, j) = ch]]

\* text.title(): a character takes its title-case form unless the character
\* before it is cased, and its lower-case form if it is
RECURSIVE TitleFrom(_, _)
TitleFrom(text, i) ==
  IF i > Len(text) THEN ""
  ELSE (IF i > 1 /\ SubSeq(text, i - 1, i - 1) \in Cased
        THEN LowerAt(text, i)
        ELSE IF SubSeq(text, i, i) \in DOMAIN TitleTable
        THEN TitleTable[SubSeq(text, i, i)]
        ELSE SubSeq(text, i, i))
         \o TitleFrom(text, i + 1)

Title(text) == TitleFrom(text, 1)

\* text.replace(old, new)
RECURSIVE ReplaceFrom(_, _, _, _)
ReplaceFrom(text, old, new, i) ==
  IF i > Len(text) THEN ""
  ELSE IF i + Len(old) - 1 <= Len(text)
            /\ SubSeq(text, i, i + Len(old) - 1) = old
       THEN new \o ReplaceFrom(text, old, new, i + Len(old))
       ELSE SubSeq(text, i, i) \o ReplaceFrom(text, old, new, i + 1)

Replace(text, old, new) == ReplaceFrom(text, old, new, 1)

format_pattern_name_for_display(pattern_name) ==
  IF pattern_name = "" \/ pattern_name = "unknown" THEN pattern_name
  ELSE LET n0 == Title(Replace(pattern_name, "_", " "))
           n1 == Replace(n0, "Api", "API")
           n2 == Replace(n1, "Http", "HTTP")
           n3 == Replace(n2, "Jpa", "JPA")
           n4 == Replace(n3, "Di", "DI")
           n5 == Replace(n4, "Etl", "ETL")
           n6 == Replace(n5, "Mvc", "MVC")
       IN  Replace(n6, "Openapi", "OpenAPI")

format_vulnerability_type(vuln_type) ==
  LET key == Lower(vuln_type)
  IN  CASE key = "sql_injection" -> "SQL Injection"
        [] key = "xss" -> "XSS"
        [] key = "xxe" -> "XXE"
        [] key = "path_traversal" -> "Path Traversal"
        [] key = "authentication_bypass" -> "Authentication Bypass"
        [] key = "insecure_deserialization" -> "Insecure Deserialization"
        [] key = "weak_cryptography" -> "Weak Cryptography"
        [] OTHER -> Title(Replace(vuln_type, "_", " "))

creational ==
  {"singleton_design_pattern", "Singleton Design Pattern",
   "factory_design_pattern", "builder_design_pattern",
   "prototype_design_pattern", "abstract_factory_design_pattern",
   "singleton", "factory", "builder", "prototype", "abstract_factory"}

structural ==
  {"adapter_design_pattern", "decorator_design_pattern",
   "proxy_design_pattern", "composite_design_pattern",
   "facade_design_pattern", "bridge_design_pattern",
   "flyweight_design_pattern", "adapter", "decorator", "proxy", "composite",
   "facade", "bridge", "flyweight"}

behavioral ==
  {"strategy_design_pattern", "observer_design_pattern",
   "command_design_pattern", "template_method_design_pattern",
   "iterator_design_pattern", "state_design_pattern",
   "chain_of_responsibility_design_pattern", "mediator_design_pattern",
   "memento_design_pattern", "visitor_design_pattern",
   "interpreter_design_pattern", "strategy", "observer", "command",
   "template_method", "iterator", "state", "chain_of_responsibility",
   "mediator", "memento", "visitor", "interpreter"}

spring ==
  {"dependency_injection", "spring_mvc_pattern", "restful_api_pattern",
   "repository_pattern", "service_layer_pattern", "dto_pattern",
   "aop_pattern", "mvc", "restful_api", "repository", "service_layer",
   "dto", "aop"}

java_concepts ==
  {"oop_fundamentals", "collections_framework", "exception_handling",
   "conditional_control_flow", "loops_and_iteration",
   "basic_programming_constructs"}

modern_java == {"optional_null_safety", "functional_programming", "stream_api"}

spring_boot ==
  {"spring_boot_error_handling", "reactive_programming", "utility_libraries",
   "lombok_jpa_annotations"}

web_dev ==
  {"core_annotations_di", "web_mvc_annotations", "http_request_processing"}

api_docs == {"openapi_documentation"}

database == {"spring_data_jpa", "batch_processing_etl"}

\* a categorisation that lacks the last table
categorize_pattern_without_database(pattern_name) ==
  IF pattern_name \in creational THEN "CREATIONAL DESIGN PATTERNS"
  ELSE IF pattern_name \in structural THEN "STRUCTURAL DESIGN PATTERNS"
  ELSE IF pattern_name \in behavioral THEN "BEHAVIORAL DESIGN PATTERNS"
  ELSE IF pattern_name \in spring THEN "SPRING FRAMEWORK PATTERNS"
  ELSE IF pattern_name \in java_concepts THEN "CORE JAVA CONCEPTS"
  ELSE IF pattern_name \in modern_java THEN "MODERN JAVA FEATURES"
  ELSE IF pattern_name \in spring_boot THEN "SPRING BOOT ECOSYSTEM"
  ELSE IF pattern_name \in web_dev THEN "WEB DEVELOPMENT"
  ELSE IF pattern_name \in api_docs THEN "API DOCUMENTATION"
  ELSE "OTHER PATTERNS"

categorize_pattern(pattern_name) ==
  IF pattern_name \in creational THEN "CREATIONAL DESIGN PATTERNS"
  ELSE IF pattern_name \in structural THEN "STRUCTURAL DESIGN PATTERNS"
  ELSE IF pattern_name \in behavioral THEN "BEHAVIORAL DESIGN PATTERNS"
  ELSE IF pattern_name \in spring THEN "SPRING FRAMEWORK PATTERNS"
  ELSE IF pattern_name \in java_concepts THEN "CORE JAVA CONCEPTS"
  ELSE IF pattern_name \in modern_java THEN "MODERN JAVA FEATURES"
  ELSE IF pattern_name \in spring_boot THEN "SPRING BOOT ECOSYSTEM"
  ELSE IF pattern_name \in web_dev THEN "WEB DEVELOPMENT"
  ELSE IF pattern_name \in api_docs THEN "API DOCUMENTATION"
  ELSE IF pattern_name \in database THEN "DATABASE INTEGRATION"
  ELSE "OTHER PATTERNS"

\* the static keyword list of a pattern, or the fallback list
pattern_keywords(pattern_name) ==
  CASE pattern_name = "singleton_design_pattern" ->
         <<"singleton", "instance", "static", "private">>
    [] pattern_name = "factory_design_pattern" ->
         <<"factory", "create", "newinstance", "builder">>
    [] pattern_name = "observer_design_pattern" ->
         <<"observer", "notify", "update", "listener">>
    [] pattern_name = "spring_mvc_annotations" ->
         <<"controller", "requestmapping", "autowired", "service">>
    [] pattern_name = "core_annotations_di" ->
         <<"autowired", "component", "service", "repository">>
    [] pattern_name = "spring_data_jpa" ->
         <<"repository", "entity", "jpa", "transactional">>
    [] pattern_name = "object_oriented_fundamentals" ->
         <<"class", "public", "private", "protected">>
    [] pattern_name = "aws_sdk_integration" ->
         <<"aws", "sdk", "client", "service">>
    [] OTHER -> <<"class", "public", "private">>

\* a matching against the source as written, not lower-cased
extract_matched_words_case_sensitive(code, pattern_name) ==
  IF code = "" THEN <<>>
  ELSE LET keywords == pattern_keywords(pattern_name)
           matched_words ==
             SelectSeq(keywords, LAMBDA keyword : In(keyword, code))
       IN  SubSeq(matched_words, 1, Min(5, Len(matched_words)))

extract_matched_words(code, pattern_name) ==
  IF code = "" THEN <<>>
  ELSE LET code_lower == Lower(code)
           keywords == pattern_keywords(pattern_name)
           matched_words ==
             SelectSeq(keywords, LAMBDA keyword : In(keyword, code_lower))
       IN  SubSeq(matched_words, 1, Min(5, Len(matched_words)))

(***************************************************************************)
(* api_server.py: the /analyze handler                                     *)
(***************************************************************************)

\* a quality score whose comment term is not capped at 1.0
quality_score_uncapped(metrics) ==
  LET den == metrics.comment_ratio.den
      num == metrics.comment_ratio.num
      duplication_term == (100 - Min(metrics.code_duplication, 100)) * 3 * den
      coverage_term == metrics.test_coverage * 3 * den
      comment_term == 40 * num * 25
      cohesion_term == metrics.cohesion * 3 * den
  IN  (duplication_term + coverage_term + comment_term + cohesion_term)
        \div (12 * den)

\* a quality score rounded to the nearest integer instead of truncated
quality_score_rounded(metrics) ==
  LET den == metrics.comment_ratio.den
      num == metrics.comment_ratio.num
      duplication_term == (100 - Min(metrics.code_duplication, 100)) * 3 * den
      coverage_term == metrics.test_coverage * 3 * den
      comment_term == Min(40 * num, 12 * den) * 25
      cohesion_term == metrics.cohesion * 3 * den
  IN  (2 * (duplication_term + coverage_term + comment_term + cohesion_term)
         + 12 * den) \div (24 * den)

\* int((1 - min(code_duplication, 1.0)) * 25 + test_coverage * 25
\*       + min(comment_ratio / 0.3, 1.0) * 25 + cohesion * 25),
\* every term taken in units of 1 / (12 * comment_ratio.den)
quality_score(metrics) ==
  LET den == metrics.comment_ratio.den
      num == metrics.comment_ratio.num
      duplication_term == (100 - Min(metrics.code_duplication, 100)) * 3 * den
      coverage_term == metrics.test_coverage * 3 * den
      comment_term == Min(40 * num, 12 * den) * 25
      cohesion_term == metrics.cohesion * 3 * den
  IN  (duplication_term + coverage_term + comment_term + cohesion_term)
        \div (12 * den)

\* a complexity score read from the cognitive complexity
complexity_score_cognitive(metrics) == Min(metrics.cognitive_complexity, 100)

complexity_score(metrics) == Min(metrics.cyclomatic_complexity, 100)

\* len([line for line in java_code.split('\n') if line.strip()])
lines_of_code(java_code) ==
  LET lines == Split(java_code)
  IN  Cardinality({i \in 1..Len(lines) : is_non_empty_line(lines[i])})

\* a concept categorised by its display name
detected_concept_by_display_name(java_code, pattern) ==
  [name |-> format_pattern_name_for_display(pattern.pattern),
   category |->
     categorize_pattern(format_pattern_name_for_display(pattern.pattern)),
   theory |-> pattern.theory,
   matchedWords |-> extract_matched_words(java_code, pattern.pattern),
   linesOfCode |-> lines_of_code(java_code)]

detected_concept(java_code, pattern) ==
  [name |-> format_pattern_name_for_display(pattern.pattern),
   category |-> categorize_pattern(pattern.pattern),
   theory |-> pattern.theory,
   matchedWords |-> extract_matched_words(java_code, pattern.pattern),
   linesOfCode |-> lines_of_code(java_code)]

detected_concepts(java_code, theory_results) ==
  [i \in 1..Len(theory_results) |->
     detected_concept(java_code, theory_results[i])]

\* a listing that does not skip the 'none' finding
vulnerabilities_with_none(security_results) ==
  LET vuln_type == security_results.vulnerability
      formatted_type == format_vulnerability_type(vuln_type)
  IN  <<[type |-> formatted_type,
         severity |-> security_results.severity,
         description |-> security_results.description,
         remediation |-> "Address " \o formatted_type
            \o " vulnerability by implementing proper security controls"]>>

\* a listing that defers to agent2 once it has a model
vulnerabilities_unless_agent2(security_results) ==
  LET vuln_type == security_results.vulnerability
      formatted_type == format_vulnerability_type(vuln_type)
  IN  IF vuln_type # "none" /\ agent2 \notin {"loaded", "trained"}
      THEN <<[type |-> formatted_type,
              severity |-> security_results.severity,
              description |-> security_results.description,
              remediation |-> "Address " \o formatted_type
                 \o " vulnerability by implementing proper security controls"]>>
      ELSE <<>>

vulnerabilities(security_results) ==
  LET vuln_type == security_results.vulnerability
      formatted_type == format_vulnerability_type(vuln_type)
  IN  IF vuln_type # "none"
      THEN <<[type |-> formatted_type,
              severity |-> security_results.severity,
              description |-> security_results.description,
              remediation |-> "Address " \o formatted_type
                 \o " vulnerability by implementing proper security controls"]>>
      ELSE <<>>

AnySeverity(vulns, severities) ==
  \E i \in 1..Len(vulns) : vulns[i].severity \in severities

\* a risk level that maps every listed vulnerability to at least MEDIUM
overall_risk_any_listed(vulns) ==
  IF Len(vulns) > 0
  THEN IF AnySeverity(vulns, {"CRITICAL"}) THEN "HIGH" ELSE "MEDIUM"
  ELSE "LOW"

overall_risk(vulns) ==
  IF AnySeverity(vulns, {"CRITICAL", "HIGH"})
  THEN IF AnySeverity(vulns, {"CRITICAL"}) THEN "HIGH" ELSE "MEDIUM"
  ELSE "LOW"

CriticalMessage ==
  "Critical security issue detected! Immediate action required."
HighMessage == "High severity vulnerability detected. Address immediately."
RefactorMessage ==
  "Consider breaking down complex methods into smaller, more manageable functions"
ExceptionMessage == "Add proper exception handling with try-catch blocks"
CoverageMessage == "Increase test coverage to at least 70%"
GoodPracticesMessage ==
  "Code follows good practices. Continue maintaining quality standards."

Say(holds, message) == IF holds THEN <<message>> ELSE <<>>

\* a checklist that tests the quality score before the severities
recommendations_quality_first(vulns, complexity, quality, metrics) ==
  LET critical_count ==
        Cardinality({i \in 1..Len(vulns) : vulns[i].severity = "CRITICAL"})
      high_count ==
        Cardinality({i \in 1..Len(vulns) : vulns[i].severity = "HIGH"})
      listed ==
        Say(quality < 60, ExceptionMessage)
          \o Say(critical_count > 0, CriticalMessage)
          \o Say(high_count > 0, HighMessage)
          \o Say(complexity > 70, RefactorMessage)
          \o Say(metrics.test_coverage < 70, CoverageMessage)
  IN  IF listed = <<>> THEN <<GoodPracticesMessage>> ELSE listed

\* a checklist that starts with the coverage test
recommendations_coverage_first(vulns, complexity, quality, metrics) ==
  LET critical_count ==
        Cardinality({i \in 1..Len(vulns) : vulns[i].severity = "CRITICAL"})
      high_count ==
        Cardinality({i \in 1..Len(vulns) : vulns[i].severity = "HIGH"})
      listed ==
        Say(metrics.test_coverage < 70, CoverageMessage)
          \o Say(critical_count > 0, CriticalMessage)
          \o Say(high_count > 0, HighMessage)
          \o Say(complexity > 70, RefactorMessage)
          \o Say(quality < 60, ExceptionMessage)
  IN  IF listed = <<>> THEN <<GoodPracticesMessage>> ELSE listed

recommendations(vulns, complexity, quality, metrics) ==
  LET critical_count ==
        Cardinality({i \in 1..Len(vulns) : vulns[i].severity = "CRITICAL"})
      high_count ==
        Cardinality({i \in 1..Len(vulns) : vulns[i].severity = "HIGH"})
      listed ==
        Say(critical_count > 0, CriticalMessage)
          \o Say(high_count > 0, HighMessage)
          \o Say(complexity > 70, RefactorMessage)
          \o Say(quality < 60, ExceptionMessage)
          \o Say(metrics.test_coverage < 70, CoverageMessage)
  IN  IF listed = <<>> THEN <<GoodPracticesMessage>> ELSE listed

\* the 200 response and the handler's locals for one source text
Report(java_code, code_metrics, theory_results, security_results) ==
  LET quality == quality_score(code_metrics)
      complexity == complexity_score(code_metrics)
      vulns == vulnerabilities(security_results)
  IN  [conceptAnalysis |->
         [complexityScore |-> complexity,
          detectedConcepts |-> detected_concepts(java_code, theory_results)],
       linesOfCode |-> lines_of_code(java_code),
       qualityScore |-> quality,
       recommendations |->
         recommendations(vulns, complexity, quality, code_metrics),
       securityAnalysis |->
         [overallRisk |-> overall_risk(vulns), vulnerabilities |-> vulns]]

NoResponse == [status |-> 0]
NoLocals == <<>>

\* the 200 answer of /analyze built from what the three analyses returned,
\* with those values kept as the handler's locals
Answer(java_code, code_metrics, theory_results, security_results) ==
  [response |->
     [status |-> 200,
      body |-> Report(java_code, code_metrics, theory_results,
                      security_results)],
   locals |-> [code_metrics |-> code_metrics,
               theory_results |-> theory_results,
               security_results |-> security_results]]

\* type(value).__name__ of a JSON value of a request.  The values are written
\* as the module's values: a text as a string, a number as an integer, true
\* and false as booleans, a list as a sequence, an object as a record and null
\* as the empty set.  The type is read off the printed form of the value: a
\* text prints in quotes, a list as <<..>>, an object as [..], null as {}, a
\* boolean as TRUE/FALSE, a number as its digits.  The empty object {} and the
\* empty list [] are one value, <<>>, which has both types: a handler run on
\* it gives the answer of either.  A request whose request.json raises (see
\* analyze) is no JSON value and is never given to this operator
type_names(value) ==
  IF ToString(value) = "<<>>" THEN {"dict", "list"}
  ELSE CASE SubSeq(ToString(value), 1, 1) = "\"" -> {"str"}
         [] SubSeq(ToString(value), 1, 1) = "<" -> {"list"}
         [] SubSeq(ToString(value), 1, 1) = "[" -> {"dict"}
         [] SubSeq(ToString(value), 1, 1) = "{" -> {"NoneType"}
         [] SubSeq(ToString(value), 1, 1) \in {"T", "F"} -> {"bool"}
         [] OTHER -> {"int"}

\* the /analyze handler on one request: the answers it can give, each with
\* the handler's locals (none when the request is rejected before the
\* analysis).  There is one answer, except for a 'code' of <<>>.  The request
\* is what request.json gives: a JSON value of any kind (an object, a list, a
\* text, a number, a boolean, null; None also when an older Flask finds no
\* JSON content type), or an exception, written as the non-empty set that
\* holds its str(e) (werkzeug's UnsupportedMediaType for a body without a JSON
\* content type under Flask 2.1 and later, BadRequest for a body that is no
\* JSON, with the decoder's message as the server runs with debug=True).
\* Every exception of
\* the try block is caught by the handler's except branch and answered 500
\* with str(e); the 'traceback' field of that body, whose text names the
\* installation's files, is left out.  In order:
\*   request.json raises                              500, str(e)
\*   not request.json (None, {}, [], '', 0, false)    400
\*   'code' in a number or a boolean raises TypeError 500
\*   'code' not in request.json (no such key of the object, no such element
\*     of the list, no such substring of the text)    400
\*   request.json['code'] of a text or a list raises  500
\*   java_code.strip() of a 'code' that is no str     500
\*   not java_code.strip()                            400
\* The texts of the TypeErrors are those of CPython 3.11
analyze(json) ==
  LET reject(status, errors) ==
        {[response |-> [status |-> status, body |-> [error |-> e]],
          locals |-> NoLocals] : e \in errors}
      missing == reject(400, {"Missing \"code\" field in request"})
  IN  IF SubSeq(ToString(json), 1, 1) = "{" /\ ToString(json) /= "{}"
      THEN reject(500, json)
      ELSE IF ToString(json) \in {"{}", "<<>>", "\"\"", "0", "FALSE"}
      THEN missing
      ELSE IF type_names(json) \cap {"int", "bool"} /= {}
      THEN reject(500, {"argument of type '" \o type \o "' is not iterable" :
                          type \in type_names(json)})
      ELSE IF "str" \in type_names(json)
      THEN IF In("code", json)
           THEN reject(500, {"string indices must be integers, not 'str'"})
           ELSE missing
      ELSE IF "list" \in type_names(json)
      THEN IF \E i \in 1..Len(json) : ToString(json[i]) = "\"code\""
           THEN reject(500,
                       {"list indices must be integers or slices, not str"})
           ELSE missing
      ELSE IF "code" \notin DOMAIN json
      THEN missing
      ELSE IF "str" \notin type_names(json.code)
      THEN reject(500, {"'" \o type \o "' object has no attribute 'strip'" :
                          type \in type_names(json.code)})
      ELSE IF ~Strip(json.code)
      THEN reject(400, {"Code cannot be empty"})
      ELSE {Answer(json.code, extract_code_metrics(json.code),
                   detect_patterns_directly(json.code),
                   detect_vulnerabilities_directly(json.code))}

\* POST /analyze
analyze_code ==
  /\ response = NoResponse
  /\ \E answer \in analyze(request) :
        /\ response' = answer.response
        /\ locals' = answer.locals
  /\ UNCHANGED <<request, other, agent1, agent2, training>>

Next == analyze_code

\* no second call
NoCall == [request |-> <<>>, response |-> NoResponse, locals |-> NoLocals]

\* POST /analyze served by another thread
analyze_other ==
  /\ other.response = NoResponse
  /\ \E answer \in analyze(other.request) :
        other' = [other EXCEPT !.response = answer.response,
                               !.locals = answer.locals]
  /\ UNCHANGED <<request, response, locals, agent1, agent2, training>>

\* the values of the globals agent1 and agent2: None, an instance whose model
\* is None, an instance with a model read from its .pkl file, and an instance
\* trained by /train
None == "None"
Untrained == "untrained"
Loaded == "loaded"
Trained == "trained"

\* initialize_agents(), run by the main program before the server starts:
\* both instances are created and each loads its model when its file exists
initialize_agents ==
  /\ agent1 = None /\ agent2 = None
  /\ response = NoResponse /\ other.response = NoResponse
  /\ training = NoResponse
  /\ \E found1, found2 \in BOOLEAN :
        /\ agent1' = (IF found1 THEN Loaded ELSE Untrained)
        /\ agent2' = (IF found2 THEN Loaded ELSE Untrained)
  /\ UNCHANGED <<request, response, locals, other, training>>

\* request.json.get('csv_path', ...) of a /train call without the field
csv_path == "comprehensive_training_data.csv"

\* POST /train up to the call of train_models_from_csv, on a request that is
\* null, {}, an object with a 'csv_path' or one whose request.json raises (as
\* in analyze): 500 with str(e) when request.json raises or the body has no
\* get(), 400 when os.path.exists(csv_path) is false, and otherwise the
\* training starts (status 0 with the request: no answer yet); while it reads
\* and writes its files the other threads of the server go on.  One /train
\* call runs at a time
train_models ==
  LET call(json) ==
        \/ /\ SubSeq(ToString(json), 1, 1) = "{" /\ ToString(json) /= "{}"
           /\ \E e \in json :
                 training' =
                   [status |-> 500, request |-> json, body |-> [error |-> e]]
        \/ /\ ~(SubSeq(ToString(json), 1, 1) = "{" /\ ToString(json) /= "{}")
           /\ \E type \in type_names(json) \ {"dict"} :
                 training' =
                   [status |-> 500,
                    request |-> json,
                    body |->
                      [error |-> "'" \o type \o "' object has no attribute 'get'"]]
        \/ /\ SubSeq(ToString(json), 1, 1) /= "{"
           /\ "dict" \in type_names(json)
           /\ \E exists \in BOOLEAN :
                 training' =
                   IF exists
                   THEN [status |-> 0, request |-> json]
                   ELSE [status |-> 400,
                         request |-> json,
                         body |->
                           [error |->
                              "CSV file not found: "
                                \o (IF "csv_path" \in DOMAIN json
                                    THEN json.csv_path
                                    ELSE csv_path)]]
  IN  /\ ~(training.status = 0 /\ "request" \in DOMAIN training)
      /\ \/ call({})
         \/ call(<<>>)
         \/ call([csv_path |-> "nope.csv"])
         \/ call({"415 Unsupported Media Type: Did not attempt to load JSON "
                    \o "data because the request Content-Type was not "
                    \o "'application/json'."})
      /\ UNCHANGED <<request, response, locals, other, agent1, agent2>>

\* a /train that stores the first agent before the second one is trained
train_models_from_csv_agent1_first ==
  /\ training.status = 0 /\ "request" \in DOMAIN training
  /\ \/ /\ \E e \in {"'patterns'", "'vulnerability_type'"} :
             training' = [status |-> 500,
                          request |-> training.request,
                          body |-> [error |-> e]]
        /\ agent1' = Trained
        /\ UNCHANGED agent2
     \/ /\ training' =
             [status |-> 200,
              request |-> training.request,
              body |-> [status |-> "success",
                        message |-> "Models trained successfully"]]
        /\ agent1' = Trained
        /\ agent2' = Trained
  /\ UNCHANGED <<request, response, locals, other>>

\* POST /train from the return of train_models_from_csv on: when the training
\* raised (here: the CSV file lacks the 'patterns' or the 'vulnerability_type'
\* column, a KeyError), 500 with str(e) and the globals as they were; otherwise
\* the assignment stores both trained agents and the answer is 200 (of its
\* body, 'agent1_patterns' and 'agent2_classes', counts read from the trained
\* agents, are left out)
train_models_from_csv ==
  /\ training.status = 0 /\ "request" \in DOMAIN training
  /\ \/ /\ \E e \in {"'patterns'", "'vulnerability_type'"} :
             training' = [status |-> 500,
                          request |-> training.request,
                          body |-> [error |-> e]]
        /\ UNCHANGED <<agent1, agent2>>
     \/ /\ training' =
             [status |-> 200,
              request |-> training.request,
              body |-> [status |-> "success",
                        message |-> "Models trained successfully"]]
        /\ agent1' = Trained
        /\ agent2' = Trained
  /\ UNCHANGED <<request, response, locals, other>>

NextServer ==
  \/ initialize_agents
  \/ train_models
  \/ train_models_from_csv
  \/ analyze_code
  \/ analyze_other

(***************************************************************************)
(* Requests                                                                *)
(***************************************************************************)

\* the most parts (lines or blocks of lines) of a posted source text
MaxParts == 2

\* '\n'.join(parts)
RECURSIVE Join(_)
Join(parts) ==
  IF Len(parts) = 0 THEN ""
  ELSE IF Len(parts) = 1 THEN parts[1]
  ELSE parts[1] \o "\n" \o Join(Tail(parts))

\* the source texts of one to MaxParts parts drawn from a set of parts
Sources(parts) ==
  {Join(ps) : ps \in UNION {[1..n -> parts] : n \in 1..MaxParts}}

\* a request body with a 'code' field, with an empty 'code' field, with a
\* 'code' of white space that is not a blank, with a form feed as a line of
\* the code, with another field only, or empty
Requests(parts) ==
  {[code |-> src] : src \in Sources(parts)}
    \cup {[code |-> ""], [code |-> " \f "], [code |-> "int x;\n\f"],
          [language |-> "java"], <<>>}

\* Java lines that trigger the vulnerability rules, the singleton rule, the
\* comment ratio and the complexity counts, alone or combined
JavaParts ==
  {"q = \"SELECT a\" + id;",
   "a.concat(select);",
   "DocumentBuilderFactory f;",
   "f.setFeature(x);",
   "new ObjectInputStream(s).readObject();",
   "if(password.length() > 8)",
   "return \"<div>\" + s;",
   "new File(d + n);",
   "@Valid BCryptPasswordEncoder e;",
   "private Db() {}",
   "static Db getInstance() {",
   "// note",
   "try { } catch (E e) { }",
   "class A {\n  int x;\n  int y;\n}",
   "  ",
   "\f"}

\* before the call: one request and no answer yet.  The request is an object
\* with a text as its 'code' or with a 'code' that is no text (a number, a
\* list, an object, a boolean, null), null, a body that is no object (a list
\* or a text with and without 'code' in it, a number, a boolean), or one
\* whose request.json raises
Init ==
  /\ \/ request \in Requests(JavaParts)
     \/ request \in {<<"code">>, <<"x">>, <<<<"code">>>>}
     \/ request = <<5, "code">>
     \/ request \in {"code", "xcodex", "text", ""}
     \/ request \in {5, -1, 0}
     \/ request \in BOOLEAN
     \/ request =
          {"415 Unsupported Media Type: Did not attempt to load JSON data "
             \o "because the request Content-Type was not 'application/json'."}
     \/ request =
          {"400 Bad Request: Failed to decode JSON object: "
             \o "Expecting value: line 1 column 1 (char 0)"}
     \/ request \in {[code |-> 5], [code |-> -1]}
     \/ request = [code |-> <<"class A {}">>]
     \/ request = [code |-> [text |-> "class A {}"]]
     \/ request = [code |-> TRUE]
     \/ request = [code |-> <<>>]
     \/ request = [code |-> {}]
     \/ request = {}
  /\ response = NoResponse
  /\ locals = NoLocals
  /\ other = NoCall
  /\ agent1 = None
  /\ agent2 = None
  /\ training = NoResponse

Spec == Init /\ [][Next]_vars

\* the server's state before any request, for a given set of request bodies
Start(requests) ==
  /\ request \in requests
  /\ response = NoResponse
  /\ locals = NoLocals
  /\ other = NoCall
  /\ agent1 = None
  /\ agent2 = None
  /\ training = NoResponse

\* Java lines that trigger the branches of the cohesion cascade and the
\* pattern rules of the same names, alone or combined
PatternParts ==
  {"private static Db getInstance() {}",
   "static A make() { return new Factory(); }",
   "return this; return this; build()",
   "clone()",
   "AbstractFactory",
   "Adapter",
   "Facade",
   "public void a() { b.c.d.e(); }\nprivate F f = g.h.i;",
   "Flyweight",
   "Strategy",
   "@Service",
   "@Autowired",
   "@Transactional",
   "@RestController",
   "@PathVariable",
   "throws",
   "@RestControllerAdvice",
   "Mono<A> m = c.retrieve();"}

\* request bodies of two calls in flight: three source texts and a body
\* without a 'code' field
ServerRequests ==
  {[code |-> "q = \"SELECT a\" + id;"],
   [code |-> "@Service\n@Autowired\nnew ObjectInputStream(s).readObject();"],
   [code |-> "  "],
   <<>>}

\* two /analyze calls arrive while the agents start, load and are retrained
InitServer ==
  /\ request \in ServerRequests
  /\ response = NoResponse
  /\ locals = NoLocals
  /\ other \in {[NoCall EXCEPT !.request = json] : json \in ServerRequests}
  /\ agent1 = None
  /\ agent2 = None
  /\ training = NoResponse

SpecServer == InitServer /\ [][NextServer]_vars

InitPatterns == Start(Requests(PatternParts))

SpecPatterns == InitPatterns /\ [][Next]_vars

\* a try block with many handlers: two of them exceed the complexity clamp
ManyHandlers ==
  "try {" \o " } catch (A a) { } catch (B b) { } catch (C c) { } catch (D d) {"
          \o " } catch (E e) { } catch (F f) { } catch (G g) { } catch (H h) {"
          \o " } catch (I i) { } catch (J j) { } catch (K k) { } catch (L l) {"
          \o " } catch (M m) { } catch (N n) { } catch (O o) { } catch (P p) {"
          \o " } catch (Q q) { } catch (R r) { } catch (S s) { } catch (T t) {"
          \o " } catch (U u) { } catch (V v) { } catch (W w) { } catch (X x) {"
          \o " } catch (Y y) { } catch (Z z) { }"

\* Java lines that the complexity counts and the branches of the
\* input-validation ratio look for, alone or combined
MetricParts ==
  {" if (a) x = 1; else if(b) x = 2;",
   "for(;;) {",
   " while (b) {",
   "switch (k) {",
   "case 1: case 2: case 3:",
   "try { } catch (E e) { } catch (F f) { }",
   "catch",
   ManyHandlers,
   "@Valid",
   "Sanitize",
   "where id = ?",
   "SELECT b WHERE id = ?",
   "String query;",
   "q = \"SELECT a\" + id;",
   "StringEscapeUtils",
   "Normalizer"}

InitMetrics == Start(Requests(MetricParts))

SpecMetrics == InitMetrics /\ [][Next]_vars

(***************************************************************************)
(* comprehensive_test_suite.py: the samples and the check of test_code     *)
(***************************************************************************)

\* the calls of test_code in run_all_tests: the sample, the keywords expected
\* among the detected pattern names and the expected vulnerabilities ({} for
\* None, when the call gives none)
Sample(name, code, expected_patterns, expected_vulnerabilities) ==
  [name |-> name, code |-> code, expected_patterns |-> expected_patterns,
   expected_vulnerabilities |-> expected_vulnerabilities]

run_all_tests ==
  <<Sample("Singleton Design Pattern",
           "public class Database {\n"
           \o "    private static Database instance;\n"
           \o "    private Database() {}\n"
           \o "    \n"
           \o "    public static Database getInstance() {\n"
           \o "        if (instance == null) {\n"
           \o "            instance = new Database();\n"
           \o "        }\n"
           \o "        return instance;\n"
           \o "    }\n"
           \o "}",
           <<"singleton">>, {}),
    Sample("Factory Design Pattern",
           "public class CarFactory {\n"
           \o "    public static Car getCar(String type) {\n"
           \o "        switch (type.toLowerCase()) {\n"
           \o "            case \"sedan\": return new Sedan();\n"
           \o "            case \"suv\": return new SUV();\n"
           \o "            default: return null;\n"
           \o "        }\n"
           \o "    }\n"
           \o "}",
           <<"factory">>, {}),
    Sample("Builder Design Pattern",
           "public class User {\n"
           \o "    private String name, email;\n"
           \o "    \n"
           \o "    public static class Builder {\n"
           \o "        private String name, email;\n"
           \o "        public Builder name(String n) { name = n; return thi"
           \o "s; }\n"
           \o "        public Builder email(String e) { email = e; return t"
           \o "his; }\n"
           \o "        public User build() { return new User(this); }\n"
           \o "    }\n"
           \o "}",
           <<"builder">>, {}),
    Sample("Prototype Design Pattern",
           "public class Shape implements Cloneable {\n"
           \o "    private String type;\n"
           \o "    \n"
           \o "    @Override\n"
           \o "    public Shape clone() {\n"
           \o "        try {\n"
           \o "            return (Shape) super.clone();\n"
           \o "        } catch (CloneNotSupportedException e) {\n"
           \o "            return new Shape(this);\n"
           \o "        }\n"
           \o "    }\n"
           \o "}",
           <<"prototype">>, {}),
    Sample("Abstract Factory Design Pattern",
           "public interface GUIFactory {\n"
           \o "    Button createButton();\n"
           \o "    TextBox createTextBox();\n"
           \o "}\n"
           \o "\n"
           \o "public class WindowsFactory implements GUIFactory {\n"
           \o "    public Button createButton() { return new WindowsButton("
           \o "); }\n"
           \o "    public TextBox createTextBox() { return new WindowsTextB"
           \o "ox(); }\n"
           \o "}",
           <<"abstract_factory">>, {}),
    Sample("Adapter Design Pattern",
           "public class AudioAdapter implements MediaPlayer {\n"
           \o "    private AdvancedMediaPlayer adaptee;\n"
           \o "    \n"
           \o "    public AudioAdapter(String type) {\n"
           \o "        adaptee = new VLCPlayer();\n"
           \o "    }\n"
           \o "    \n"
           \o "    public void play(String file) {\n"
           \o "        adaptee.playVlc(file);\n"
           \o "    }\n"
           \o "}",
           <<"adapter">>, {}),
    Sample("Decorator Design Pattern",
           "public class BorderDecorator implements Component {\n"
           \o "    private Component component;\n"
           \o "    \n"
           \o "    public BorderDecorator(Component c) {\n"
           \o "        this.component = c;\n"
           \o "    }\n"
           \o "    \n"
           \o "    public void draw() {\n"
           \o "        component.draw();\n"
           \o "        drawBorder();\n"
           \o "    }\n"
           \o "}",
           <<"decorator">>, {}),
    Sample("Proxy Design Pattern",
           "public class ProxyImage implements Image {\n"
           \o "    private RealImage realImage;\n"
           \o "    \n"
           \o "    public void display() {\n"
           \o "        if (checkAccess()) {\n"
           \o "            realImage.display();\n"
           \o "        }\n"
           \o "    }\n"
           \o "    \n"
           \o "    private boolean checkAccess() { return true; }\n"
           \o "}",
           <<"proxy">>, {}),
    Sample("Composite Design Pattern",
           "public class Composite implements Component {\n"
           \o "    private List<Component> children = new ArrayList<>();\n"
           \o "    \n"
           \o "    public void add(Component c) { children.add(c); }\n"
           \o "    \n"
           \o "    public void operation() {\n"
           \o "        for (Component child : children) {\n"
           \o "            child.operation();\n"
           \o "        }\n"
           \o "    }\n"
           \o "}",
           <<"composite">>, {}),
    Sample("Facade Design Pattern",
           "public class HomeFacade {\n"
           \o "    private LightSystem lights;\n"
           \o "    private SecuritySystem security;\n"
           \o "    \n"
           \o "    public void leaveHome() {\n"
           \o "        lights.turnOff();\n"
           \o "        security.arm();\n"
           \o "    }\n"
           \o "    \n"
           \o "    public void arriveHome() {\n"
           \o "        security.disarm();\n"
           \o "        lights.turnOn();\n"
           \o "    }\n"
           \o "}",
           <<"facade">>, {}),
    Sample("Bridge Design Pattern",
           "public abstract class Shape {\n"
           \o "    protected DrawingAPI implementation;\n"
           \o "    \n"
           \o "    protected Shape(DrawingAPI impl) {\n"
           \o "        this.implementation = impl;\n"
           \o "    }\n"
           \o "    \n"
           \o "    public abstract void draw();\n"
           \o "}\n"
           \o "\n"
           \o "public class Circle extends Shape {\n"
           \o "    public void draw() { implementation.drawCircle(); }\n"
           \o "}",
           <<"bridge">>, {}),
    Sample("Flyweight Design Pattern",
           "public class CharacterFactory {\n"
           \o "    private Map<Character, CharacterStyle> cache = new HashM"
           \o "ap<>();\n"
           \o "    \n"
           \o "    public CharacterStyle getStyle(char c) {\n"
           \o "        if (!cache.containsKey(c)) {\n"
           \o "            cache.put(c, new CharacterStyle(c));\n"
           \o "        }\n"
           \o "        return cache.get(c);\n"
           \o "    }\n"
           \o "}",
           <<"flyweight">>, {}),
    Sample("Strategy Design Pattern",
           "public class PaymentContext {\n"
           \o "    private PaymentStrategy strategy;\n"
           \o "    \n"
           \o "    public void setStrategy(PaymentStrategy s) {\n"
           \o "        this.strategy = s;\n"
           \o "    }\n"
           \o "    \n"
           \o "    public void pay(int amount) {\n"
           \o "        strategy.processPayment(amount);\n"
           \o "    }\n"
           \o "}",
           <<"strategy">>, {}),
    Sample("Observer Design Pattern",
           "public class NewsAgency {\n"
           \o "    private List<Observer> observers = new ArrayList<>();\n"
           \o "    \n"
           \o "    public void attach(Observer o) { observers.add(o); }\n"
           \o "    \n"
           \o "    public void notifyObservers(String news) {\n"
           \o "        for (Observer o : observers) {\n"
           \o "            o.update(news);\n"
           \o "        }\n"
           \o "    }\n"
           \o "}",
           <<"observer">>, {}),
    Sample("Command Design Pattern",
           "public class LightCommand implements Command {\n"
           \o "    private Light receiver;\n"
           \o "    \n"
           \o "    public LightCommand(Light light) {\n"
           \o "        this.receiver = light;\n"
           \o "    }\n"
           \o "    \n"
           \o "    public void execute() {\n"
           \o "        receiver.turnOn();\n"
           \o "    }\n"
           \o "}",
           <<"command">>, {}),
    Sample("Template Method Design Pattern",
           "public abstract class DataProcessor {\n"
           \o "    public final void process() {\n"
           \o "        loadData();\n"
           \o "        processData();\n"
           \o "        saveData();\n"
           \o "    }\n"
           \o "    \n"
           \o "    protected abstract void processData();\n"
           \o "    protected void loadData() { }\n"
           \o "    protected void saveData() { }\n"
           \o "}",
           <<"template">>, {}),
    Sample("Iterator Design Pattern",
           "public class BookIterator implements Iterator<Book> {\n"
           \o "    private List<Book> books;\n"
           \o "    private int position = 0;\n"
           \o "    \n"
           \o "    public boolean hasNext() {\n"
           \o "        return position < books.size();\n"
           \o "    }\n"
           \o "    \n"
           \o "    public Book next() {\n"
           \o "        return books.get(position++);\n"
           \o "    }\n"
           \o "}",
           <<"iterator">>, {}),
    Sample("State Design Pattern",
           "public class Document {\n"
           \o "    private State state;\n"
           \o "    \n"
           \o "    public void setState(State newState) {\n"
           \o "        this.state = newState;\n"
           \o "    }\n"
           \o "    \n"
           \o "    public void publish() {\n"
           \o "        state.publish(this);\n"
           \o "    }\n"
           \o "}\n"
           \o "\n"
           \o "interface State {\n"
           \o "    void publish(Document doc);\n"
           \o "}",
           <<"state">>, {}),
    Sample("Chain of Responsibility Pattern",
           "public abstract class Handler {\n"
           \o "    protected Handler nextHandler;\n"
           \o "    \n"
           \o "    public void setNext(Handler next) {\n"
           \o "        this.nextHandler = next;\n"
           \o "    }\n"
           \o "    \n"
           \o "    public void handleRequest(Request req) {\n"
           \o "        if (nextHandler != null) {\n"
           \o "            nextHandler.handleRequest(req);\n"
           \o "        }\n"
           \o "    }\n"
           \o "}",
           <<"chain">>, {}),
    Sample("Mediator Design Pattern",
           "public class ChatMediator {\n"
           \o "    private List<User> users = new ArrayList<>();\n"
           \o "    \n"
           \o "    public void sendMessage(String msg, User sender) {\n"
           \o "        for (User user : users) {\n"
           \o "            if (user != sender) {\n"
           \o "                user.receive(msg);\n"
           \o "            }\n"
           \o "        }\n"
           \o "    }\n"
           \o "}",
           <<"mediator">>, {}),
    Sample("Memento Design Pattern",
           "public class Originator {\n"
           \o "    private String state;\n"
           \o "    \n"
           \o "    public Memento saveState() {\n"
           \o "        return new Memento(state);\n"
           \o "    }\n"
           \o "    \n"
           \o "    public void restoreState(Memento m) {\n"
           \o "        this.state = m.getState();\n"
           \o "    }\n"
           \o "}\n"
           \o "\n"
           \o "public class Caretaker {\n"
           \o "    private Memento memento;\n"
           \o "}",
           <<"memento">>, {}),
    Sample("Visitor Design Pattern",
           "public interface Visitor {\n"
           \o "    void visit(Book book);\n"
           \o "    void visit(Magazine magazine);\n"
           \o "}\n"
           \o "\n"
           \o "public class Book {\n"
           \o "    public void accept(Visitor visitor) {\n"
           \o "        visitor.visit(this);\n"
           \o "    }\n"
           \o "}",
           <<"visitor">>, {}),
    Sample("Interpreter Design Pattern",
           "public interface Expression {\n"
           \o "    int interpret();\n"
           \o "}\n"
           \o "\n"
           \o "public class NumberExpression implements Expression {\n"
           \o "    private int number;\n"
           \o "    public int interpret() { return number; }\n"
           \o "}\n"
           \o "\n"
           \o "public class AddExpression implements Expression {\n"
           \o "    public int interpret() { return left.interpret() + right"
           \o ".interpret(); }\n"
           \o "}",
           <<"interpreter">>, {}),
    Sample("Dependency Injection",
           "@Service\n"
           \o "public class UserService {\n"
           \o "    @Autowired\n"
           \o "    private UserRepository userRepository;\n"
           \o "    \n"
           \o "    public User findById(Long id) {\n"
           \o "        return userRepository.findById(id).orElse(null);\n"
           \o "    }\n"
           \o "}",
           <<"dependency", "injection">>, {}),
    Sample("Spring MVC Pattern",
           "@RestController\n"
           \o "@RequestMapping(\"/api/users\")\n"
           \o "public class UserController {\n"
           \o "    @GetMapping(\"/{id}\")\n"
           \o "    public User getUser(@PathVariable Long id) {\n"
           \o "        return userService.findById(id);\n"
           \o "    }\n"
           \o "    \n"
           \o "    @PostMapping\n"
           \o "    public User createUser(@RequestBody User user) {\n"
           \o "        return userService.save(user);\n"
           \o "    }\n"
           \o "}",
           <<"spring", "mvc">>, {}),
    Sample("RESTful API Pattern",
           "@RestController\n"
           \o "@RequestMapping(\"/api/products\")\n"
           \o "public class ProductAPI {\n"
           \o "    @GetMapping\n"
           \o "    public List<Product> getAll() { return productService.fi"
           \o "ndAll(); }\n"
           \o "    \n"
           \o "    @PostMapping\n"
           \o "    public Product create(@RequestBody Product p) { return p"
           \o "roductService.save(p); }\n"
           \o "    \n"
           \o "    @PutMapping(\"/{id}\")\n"
           \o "    public Product update(@PathVariable Long id, @RequestBod"
           \o "y Product p) {\n"
           \o "        return productService.update(id, p);\n"
           \o "    }\n"
           \o "}",
           <<"restful", "api">>, {}),
    Sample("Repository Pattern",
           "@Repository\n"
           \o "public interface UserRepository extends JpaRepository<User, "
           \o "Long> {\n"
           \o "    List<User> findByEmail(String email);\n"
           \o "    List<User> findByAgeGreaterThan(int age);\n"
           \o "    \n"
           \o "    @Query(\"SELECT u FROM User u WHERE u.status = :status\")\n"
           \o "    List<User> findByStatus(@Param(\"status\") String status);"
           \o "\n"
           \o "}",
           <<"repository">>, {}),
    Sample("Service Layer Pattern",
           "@Service\n"
           \o "public class OrderService {\n"
           \o "    @Autowired\n"
           \o "    private OrderRepository orderRepository;\n"
           \o "    \n"
           \o "    @Transactional\n"
           \o "    public Order createOrder(OrderDTO dto) {\n"
           \o "        Order order = new Order();\n"
           \o "        order.setItems(dto.getItems());\n"
           \o "        return orderRepository.save(order);\n"
           \o "    }\n"
           \o "}",
           <<"service">>, {}),
    Sample("DTO Pattern",
           "public class UserDTO {\n"
           \o "    private String username;\n"
           \o "    private String email;\n"
           \o "    \n"
           \o "    public String getUsername() { return username; }\n"
           \o "    public void setUsername(String u) { this.username = u; }"
           \o "\n"
           \o "    public String getEmail() { return email; }\n"
           \o "    public void setEmail(String e) { this.email = e; }\n"
           \o "}",
           <<"dto">>, {}),
    Sample("AOP Pattern",
           "@Aspect\n"
           \o "@Component\n"
           \o "public class LoggingAspect {\n"
           \o "    @Before(\"execution(* com.example.service.*.*(..))\")\n"
           \o "    public void logBefore(JoinPoint joinPoint) {\n"
           \o "        System.out.println(\"Before: \" + joinPoint.getSignatu"
           \o "re());\n"
           \o "    }\n"
           \o "    \n"
           \o "    @After(\"execution(* com.example.service.*.*(..))\")\n"
           \o "    public void logAfter() {\n"
           \o "        System.out.println(\"Method executed\");\n"
           \o "    }\n"
           \o "}",
           <<"aop">>, {}),
    Sample("OOP Fundamentals",
           "public class Animal {\n"
           \o "    protected String name;\n"
           \o "    public void makeSound() { }\n"
           \o "}\n"
           \o "\n"
           \o "public class Dog extends Animal {\n"
           \o "    @Override\n"
           \o "    public void makeSound() {\n"
           \o "        System.out.println(\"Woof!\");\n"
           \o "    }\n"
           \o "}",
           <<"oop">>, {}),
    Sample("Collections Framework",
           "public class CollectionsExample {\n"
           \o "    public void demonstrateCollections() {\n"
           \o "        List<String> list = new ArrayList<>();\n"
           \o "        list.add(\"Java\");\n"
           \o "        \n"
           \o "        Set<Integer> set = new HashSet<>();\n"
           \o "        set.add(1);\n"
           \o "        \n"
           \o "        Map<String, Integer> map = new HashMap<>();\n"
           \o "        map.put(\"age\", 25);\n"
           \o "    }\n"
           \o "}",
           <<"collections">>, {}),
    Sample("Exception Handling",
           "@RestControllerAdvice\n"
           \o "public class GlobalExceptionHandler {\n"
           \o "    @ExceptionHandler(ResourceNotFoundException.class)\n"
           \o "    public ResponseEntity<ErrorResponse> handleNotFound(Reso"
           \o "urceNotFoundException ex) {\n"
           \o "        ErrorResponse error = new ErrorResponse(ex.getMessag"
           \o "e());\n"
           \o "        return ResponseEntity.status(404).body(error);\n"
           \o "    }\n"
           \o "}",
           <<"exception">>, {}),
    Sample("Conditional Control Flow",
           "public class DiscountCalculator {\n"
           \o "    public double calculateDiscount(String customerType, dou"
           \o "ble amount) {\n"
           \o "        if (amount > 1000) {\n"
           \o "            switch (customerType) {\n"
           \o "                case \"PREMIUM\": return amount * 0.15;\n"
           \o "                case \"GOLD\": return amount * 0.10;\n"
           \o "                default: return amount * 0.05;\n"
           \o "            }\n"
           \o "        } else if (amount > 500) {\n"
           \o "            return amount * 0.03;\n"
           \o "        }\n"
           \o "        return 0;\n"
           \o "    }\n"
           \o "}",
           <<"conditional">>, {}),
    Sample("Loops and Iteration",
           "public class LoopExamples {\n"
           \o "    public void demonstrateLoops() {\n"
           \o "        for (int i = 0; i < 10; i++) {\n"
           \o "            System.out.println(i);\n"
           \o "        }\n"
           \o "        \n"
           \o "        List<String> items = Arrays.asList(\"A\", \"B\", \"C\");\n"
           \o "        for (String item : items) {\n"
           \o "            System.out.println(item);\n"
           \o "        }\n"
           \o "        \n"
           \o "        items.forEach(item -> System.out.println(item));\n"
           \o "    }\n"
           \o "}",
           <<"loops", "iteration">>, {}),
    Sample("Basic Programming Constructs",
           "public class Calculator {\n"
           \o "    private int value;\n"
           \o "    \n"
           \o "    public int add(int a, int b) {\n"
           \o "        return a + b;\n"
           \o "    }\n"
           \o "    \n"
           \o "    public int subtract(int a, int b) {\n"
           \o "        return a - b;\n"
           \o "    }\n"
           \o "}",
           <<"basic">>, {}),
    Sample("Optional & Null Safety",
           "public class UserService {\n"
           \o "    public Optional<User> findUser(Long id) {\n"
           \o "        return userRepository.findById(id);\n"
           \o "    }\n"
           \o "    \n"
           \o "    public String getUserName(Long id) {\n"
           \o "        return findUser(id)\n"
           \o "            .map(User::getName)\n"
           \o "            .orElse(\"Unknown\");\n"
           \o "    }\n"
           \o "}",
           <<"optional">>, {}),
    Sample("Functional Programming",
           "public class StreamExample {\n"
           \o "    public List<String> processNames(List<String> names) {\n"
           \o "        return names.stream()\n"
           \o "            .filter(name -> name.length() > 3)\n"
           \o "            .map(String::toUpperCase)\n"
           \o "            .collect(Collectors.toList());\n"
           \o "    }\n"
           \o "    \n"
           \o "    Function<Integer, Integer> square = x -> x * x;\n"
           \o "}",
           <<"functional">>, {}),
    Sample("Spring Boot Error Handling",
           "@ControllerAdvice\n"
           \o "public class GlobalErrorHandler {\n"
           \o "    @ExceptionHandler(ValidationException.class)\n"
           \o "    public ResponseEntity<ErrorResponse> handleValidation(Va"
           \o "lidationException ex) {\n"
           \o "        return ResponseEntity.badRequest().body(new ErrorRes"
           \o "ponse(ex.getMessage()));\n"
           \o "    }\n"
           \o "    \n"
           \o "    @ExceptionHandler(Exception.class)\n"
           \o "    public ResponseEntity<ErrorResponse> handleGeneric(Excep"
           \o "tion ex) {\n"
           \o "        return ResponseEntity.status(500).body(new ErrorResp"
           \o "onse(\"Internal error\"));\n"
           \o "    }\n"
           \o "}",
           <<"error", "handling">>, {}),
    Sample("Reactive Programming",
           "@Service\n"
           \o "public class UserService {\n"
           \o "    @Autowired\n"
           \o "    private WebClient webClient;\n"
           \o "    \n"
           \o "    public Mono<User> fetchUserAsync(Long userId) {\n"
           \o "        return webClient.get()\n"
           \o "            .uri(\"/users/{id}\", userId)\n"
           \o "            .retrieve()\n"
           \o "            .bodyToMono(User.class);\n"
           \o "    }\n"
           \o "}",
           <<"reactive">>, {}),
    Sample("Utility Libraries",
           "public class StringUtils {\n"
           \o "    public static boolean isEmpty(String str) {\n"
           \o "        return str == null || str.trim().isEmpty();\n"
           \o "    }\n"
           \o "    \n"
           \o "    public static String capitalize(String str) {\n"
           \o "        return str.substring(0, 1).toUpperCase() + str.subst"
           \o "ring(1);\n"
           \o "    }\n"
           \o "}",
           <<"util">>, {}),
    Sample("Lombok & JPA Annotations",
           "@Entity\n"
           \o "@Table(name = \"users\")\n"
           \o "@Data\n"
           \o "@NoArgsConstructor\n"
           \o "@AllArgsConstructor\n"
           \o "public class User {\n"
           \o "    @Id\n"
           \o "    @GeneratedValue(strategy = GenerationType.IDENTITY)\n"
           \o "    private Long id;\n"
           \o "    \n"
           \o "    @Column(nullable = false)\n"
           \o "    private String username;\n"
           \o "}",
           <<"lombok", "jpa">>, {}),
    Sample("Core Annotations & DI",
           "@Component\n"
           \o "public class EmailService {\n"
           \o "    @Autowired\n"
           \o "    private MailSender mailSender;\n"
           \o "    \n"
           \o "    @Value(\"${mail.from}\")\n"
           \o "    private String fromAddress;\n"
           \o "    \n"
           \o "    public void sendEmail(String to, String subject) {\n"
           \o "        mailSender.send(to, subject);\n"
           \o "    }\n"
           \o "}",
           <<"core", "annotations">>, {}),
    Sample("Web MVC Annotations",
           "@Controller\n"
           \o "public class HomeController {\n"
           \o "    @RequestMapping(\"/home\")\n"
           \o "    public String home(@RequestParam String name, Model mode"
           \o "l) {\n"
           \o "        model.addAttribute(\"greeting\", \"Hello \" + name);\n"
           \o "        return \"home\";\n"
           \o "    }\n"
           \o "    \n"
           \o "    @GetMapping(\"/user/{id}\")\n"
           \o "    public User getUser(@PathVariable Long id) {\n"
           \o "        return userService.findById(id);\n"
           \o "    }\n"
           \o "}",
           <<"web", "mvc">>, {}),
    Sample("HTTP Request Processing",
           "@RestController\n"
           \o "public class ApiController {\n"
           \o "    @PostMapping(\"/process\")\n"
           \o "    public ResponseEntity<Result> process(@RequestBody Reque"
           \o "st req) {\n"
           \o "        Result result = processRequest(req);\n"
           \o "        return ResponseEntity.ok(result);\n"
           \o "    }\n"
           \o "    \n"
           \o "    @GetMapping(\"/data\")\n"
           \o "    public @ResponseBody Data getData(HttpServletRequest req"
           \o "uest) {\n"
           \o "        return new Data(request.getParameter(\"id\"));\n"
           \o "    }\n"
           \o "}",
           <<"http", "request">>, {}),
    Sample("OpenAPI Documentation",
           "@RestController\n"
           \o "@Api(tags = \"User Management\")\n"
           \o "@RequestMapping(\"/api/users\")\n"
           \o "public class UserController {\n"
           \o "    @ApiOperation(value = \"Get user by ID\")\n"
           \o "    @ApiResponse(code = 200, message = \"Success\")\n"
           \o "    @GetMapping(\"/{id}\")\n"
           \o "    public User getUser(@PathVariable Long id) {\n"
           \o "        return userService.findById(id);\n"
           \o "    }\n"
           \o "}",
           <<"openapi", "api">>, {}),
    Sample("Spring Data JPA",
           "@Entity\n"
           \o "public class Product {\n"
           \o "    @Id\n"
           \o "    @GeneratedValue\n"
           \o "    private Long id;\n"
           \o "    private String name;\n"
           \o "}\n"
           \o "\n"
           \o "@Repository\n"
           \o "public interface ProductRepository extends JpaRepository<Pro"
           \o "duct, Long> {\n"
           \o "    @Query(\"SELECT p FROM Product p WHERE p.price > :price\")"
           \o "\n"
           \o "    List<Product> findExpensiveProducts(@Param(\"price\") Doub"
           \o "le price);\n"
           \o "}",
           <<"spring", "data", "jpa">>, {}),
    Sample("Batch Processing & ETL",
           "@Configuration\n"
           \o "@EnableBatchProcessing\n"
           \o "public class BatchConfig {\n"
           \o "    @Bean\n"
           \o "    public Job importJob(JobBuilderFactory jobs, Step step) "
           \o "{\n"
           \o "        return jobs.get(\"importJob\").start(step).build();\n"
           \o "    }\n"
           \o "    \n"
           \o "    @Bean\n"
           \o "    public Step step(StepBuilderFactory steps, ItemReader<Da"
           \o "ta> reader) {\n"
           \o "        return steps.get(\"step\")\n"
           \o "            .<Data, Data>chunk(100)\n"
           \o "            .reader(reader)\n"
           \o "            .processor(processor())\n"
           \o "            .writer(writer())\n"
           \o "            .build();\n"
           \o "    }\n"
           \o "}",
           <<"batch">>, {}),
    Sample("SQL Injection Vulnerability",
           "public class UserDAO {\n"
           \o "    public User findUser(String username) {\n"
           \o "        String query = \"SELECT * FROM users WHERE username ="
           \o " '\" + username + \"'\";\n"
           \o "        return jdbcTemplate.queryForObject(query, User.class"
           \o ");\n"
           \o "    }\n"
           \o "}",
           <<>>, <<"sql_injection">>),
    Sample("XSS Vulnerability",
           "@GetMapping(\"/comment\")\n"
           \o "public String showComment(@RequestParam String text) {\n"
           \o "    return \"<div>\" + text + \"</div>\";\n"
           \o "}",
           <<>>, <<"xss">>),
    Sample("Path Traversal Vulnerability",
           "public File getFile(String filename) {\n"
           \o "    return new File(\"/uploads/\" + filename);\n"
           \o "}",
           <<>>, <<"path_traversal">>),
    Sample("XXE Vulnerability",
           "public Document parseXML(String xml) {\n"
           \o "    DocumentBuilderFactory factory = DocumentBuilderFactory."
           \o "newInstance();\n"
           \o "    DocumentBuilder builder = factory.newDocumentBuilder();\n"
           \o "    return builder.parse(new InputSource(new StringReader(xm"
           \o "l)));\n"
           \o "}",
           <<>>, <<"xxe">>),
    Sample("Authentication Bypass",
           "@PostMapping(\"/login\")\n"
           \o "public String login(@RequestParam String user, @RequestParam"
           \o " String pass) {\n"
           \o "    if (user.equals(\"admin\") && pass.length() > 5) {\n"
           \o "        return \"success\";\n"
           \o "    }\n"
           \o "    return \"failed\";\n"
           \o "}",
           <<>>, <<"authentication_bypass">>),
    Sample("Insecure Deserialization",
           "public Object deserialize(byte[] data) {\n"
           \o "    ObjectInputStream ois = new ObjectInputStream(new ByteAr"
           \o "rayInputStream(data));\n"
           \o "    return ois.readObject();\n"
           \o "}",
           <<>>, <<"insecure_deserialization">>),
    Sample("Secure State (No Vulnerabilities)",
           "@RestController\n"
           \o "public class SecureController {\n"
           \o "    @Autowired\n"
           \o "    private BCryptPasswordEncoder encoder;\n"
           \o "    \n"
           \o "    @PostMapping(\"/register\")\n"
           \o "    public User register(@Valid @RequestBody UserDTO dto) {\n"
           \o "        User user = new User();\n"
           \o "        user.setPassword(encoder.encode(dto.getPassword()));"
           \o "\n"
           \o "        return userRepository.save(user);\n"
           \o "    }\n"
           \o "}",
           <<>>, <<"none">>)>>

\* test_code: the lower-cased names of the concepts of a response
detected_patterns(data) ==
  [i \in 1..Len(data.conceptAnalysis.detectedConcepts) |->
     Lower(data.conceptAnalysis.detectedConcepts[i].name)]

\* test_code: the lower-cased vulnerability types with '_' for ' ', or 'none'
detected_vulns(data) ==
  LET listed == data.securityAnalysis.vulnerabilities
  IN  IF listed = <<>> THEN <<"none">>
      ELSE [i \in 1..Len(listed) |-> Replace(Lower(listed[i].type), " ", "_")]

\* test_code: every expected keyword is part of some detected name
patterns_found(data, expected_patterns) ==
  \A i \in 1..Len(expected_patterns) :
     \E j \in 1..Len(detected_patterns(data)) :
        In(Lower(expected_patterns[i]), detected_patterns(data)[j])

\* test_code: the vulnerability expectation; None, the default of the
\* parameter, is written {} and is no expectation, while of an empty list no
\* name is found
vulns_correct(data, expected_vulnerabilities) ==
  IF ToString(expected_vulnerabilities) = "{}" THEN TRUE
  ELSE IF \E i \in 1..Len(expected_vulnerabilities) :
            expected_vulnerabilities[i] = "none"
  THEN \/ Len(data.securityAnalysis.vulnerabilities) = 0
       \/ detected_vulns(data) = <<"none">>
  ELSE \E i \in 1..Len(expected_vulnerabilities) :
          \E j \in 1..Len(detected_vulns(data)) :
             In(Lower(expected_vulnerabilities[i]),
                Lower(detected_vulns(data)[j]))

\* test_code: the verdict on one answer
test_code(answer, expected_patterns, expected_vulnerabilities) ==
  /\ answer.status = 200
  /\ patterns_found(answer.body, expected_patterns)
  /\ vulns_correct(answer.body, expected_vulnerabilities)

\* the suite posts each sample to /analyze
InitSuite ==
  Start({[code |-> run_all_tests[i].code] : i \in DOMAIN run_all_tests})

SpecSuite == InitSuite /\ [][Next]_vars

(***************************************************************************)
(* api_server.py: categorize_pattern called on a pattern name              *)
(***************************************************************************)

\* the names categorize_pattern is tried on: every entry of its ten lists,
\* the schema's default name 'unknown' and names that are in no list
PatternNames ==
  creational \cup structural \cup behavioral \cup spring \cup java_concepts
    \cup modern_java \cup spring_boot \cup web_dev \cup api_docs \cup database
    \cup {"unknown", "", "Factory Design Pattern", "SINGLETON", "stream",
          "spring_mvc", "service", "batch_processing"}

InitCategorize == Start({[pattern_name |-> name] : name \in PatternNames})

\* one call categorize_pattern(pattern_name) and the label it returns
categorize ==
  /\ response = NoResponse
  /\ response' = [category |-> categorize_pattern(request.pattern_name)]
  /\ UNCHANGED <<request, locals, other, agent1, agent2, training>>

SpecCategorize == InitCategorize /\ [][categorize]_vars

(***************************************************************************)
(* Properties                                                              *)
(***************************************************************************)

Answered == response.status = 200
Body == response.body
Listed == response.body.securityAnalysis.vulnerabilities
Risk == response.body.securityAnalysis.overallRisk

\* the seven rules in their fixed order; position 8 is the default
RuleHolds(k, java_code) ==
  CASE k = 1 -> sql_injection_rule(java_code)
    [] k = 2 -> xss_rule(java_code)
    [] k = 3 -> path_traversal_rule(java_code)
    [] k = 4 -> xxe_rule(java_code)
    [] k = 5 -> authentication_bypass_rule(java_code)
    [] k = 6 -> insecure_deserialization_rule(java_code)
    [] k = 7 -> secure_state_rule(java_code)
    [] OTHER -> TRUE

VerdictKey ==
  <<"sql_injection", "xss", "path_traversal", "xxe", "authentication_bypass",
    "insecure_deserialization", "none", "none">>

VerdictConfidence == <<92, 90, 88, 85, 87, 89, 95, 50>>

FirstRule(java_code) ==
  CHOOSE k \in 1..8 :
    RuleHolds(k, java_code) /\ \A j \in 1..(k - 1) : ~RuleHolds(j, java_code)

\* C1: the finding is the verdict of the first rule, in the order
\* sql_injection, xss, path_traversal, xxe, authentication_bypass,
\* insecure_deserialization, secure 'none', whose predicate holds on the
\* source, and the default 'none' when none holds; a source that satisfies
\* both the SQL-injection and the XXE predicate is reported as sql_injection.
C1_FirstMatchingRuleWins ==
  Answered =>
    LET k == FirstRule(request.code)
        finding == locals.security_results
    IN  /\ finding.vulnerability = VerdictKey[k]
        /\ finding.confidence = VerdictConfidence[k]
        /\ (sql_injection_rule(request.code) /\ xxe_rule(request.code)
              => finding.vulnerability = "sql_injection")

C1_Witness ==
  /\ Answered
  /\ sql_injection_rule(request.code)
  /\ xxe_rule(request.code)
  /\ locals.security_results.vulnerability = "sql_injection"

SeverityOf ==
  [sql_injection |-> "HIGH", xss |-> "HIGH", path_traversal |-> "HIGH",
   xxe |-> "MEDIUM", authentication_bypass |-> "CRITICAL",
   insecure_deserialization |-> "CRITICAL", none |-> "LOW"]

\* C2: every analysed source gets one finding whose key is one of the seven
\* vulnerability keys and whose severity is the fixed severity of that key.
C2_OneFindingWithFixedSeverity ==
  Answered =>
    LET finding == locals.security_results
    IN  /\ finding.vulnerability \in DOMAIN SeverityOf
        /\ finding.severity = SeverityOf[finding.vulnerability]

C2_Witness ==
  /\ Answered
  /\ locals.security_results.vulnerability = "xxe"
  /\ locals.security_results.severity = "MEDIUM"

\* C3: overallRisk is HIGH exactly when a listed vulnerability is CRITICAL,
\* MEDIUM exactly when none is CRITICAL and one is HIGH, and LOW otherwise
\* (a single MEDIUM finding and the empty list included).
C3_OverallRiskFromSeverities ==
  Answered =>
    LET critical == \E i \in 1..Len(Listed) : Listed[i].severity = "CRITICAL"
        high == \E i \in 1..Len(Listed) : Listed[i].severity = "HIGH"
    IN  /\ Risk = "HIGH" <=> critical
        /\ Risk = "MEDIUM" <=> (~critical /\ high)
        /\ Risk = "LOW" <=> (~critical /\ ~high)

C3_Witness ==
  /\ Answered
  /\ Len(Listed) = 1
  /\ Listed[1].severity = "MEDIUM"
  /\ Risk = "LOW"

\* C4: for every non-empty source qualityScore and complexityScore are
\* within 0..100.
C4_ScoresWithinRange ==
  Answered =>
    /\ Body.qualityScore \in 0..100
    /\ Body.conceptAnalysis.complexityScore \in 0..100

C4_Witness ==
  /\ Answered
  /\ locals.code_metrics.comment_ratio.num = locals.code_metrics.comment_ratio.den
  /\ Body.qualityScore = 77
  /\ Body.conceptAnalysis.complexityScore >= 1

\* the exact sum the quality score is taken from, as a fraction num / den
QualitySum(metrics) ==
  LET lines == metrics.comment_ratio.den
      comments == metrics.comment_ratio.num
  IN  [num |-> (100 - Min(metrics.code_duplication, 100)) * 3 * lines
                 + metrics.test_coverage * 3 * lines
                 + Min(40 * comments, 12 * lines) * 25
                 + metrics.cohesion * 3 * lines,
       den |-> 12 * lines]

\* round(): to the nearest integer, a tie to the even neighbour
Round(num, den) ==
  LET q == num \div den
      r == num % den
  IN  IF 2 * r < den THEN q
      ELSE IF 2 * r > den THEN q + 1
      ELSE IF q % 2 = 0 THEN q ELSE q + 1

\* C5 as stated: qualityScore is the rounded value of the sum
\* (1 - min(duplication,1))*25 + testCoverage*25
\*   + min(commentRatio/0.3, 1)*25 + cohesion*25.
C5_QualityScoreIsRounded ==
  Answered =>
    LET sum == QualitySum(locals.code_metrics)
    IN  Body.qualityScore = Round(sum.num, sum.den)

\* C5 amended: qualityScore is that sum truncated to an integer, so 60.5
\* gives 60 and 57.5 gives 57.
C5_QualityScoreIsTruncated ==
  Answered =>
    LET sum == QualitySum(locals.code_metrics)
    IN  /\ Body.qualityScore * sum.den <= sum.num
        /\ sum.num < (Body.qualityScore + 1) * sum.den

\* a source with cohesion 0.92 and no comment line: the sum is 60.5
C5_Witness ==
  /\ Answered
  /\ locals.code_metrics.cohesion = 92
  /\ locals.code_metrics.comment_ratio.num = 0
  /\ Body.qualityScore = 60

\* the five conditional messages in the order they are tested
ConditionalMessages ==
  <<CriticalMessage, HighMessage, RefactorMessage, ExceptionMessage,
    CoverageMessage>>

\* which of the five conditions hold in the answered state
ConditionHolds ==
  <<\E i \in 1..Len(Listed) : Listed[i].severity = "CRITICAL",
    \E i \in 1..Len(Listed) : Listed[i].severity = "HIGH",
    Body.conceptAnalysis.complexityScore > 70,
    Body.qualityScore < 60,
    locals.code_metrics.test_coverage < 70>>

\* C6: the recommendations are, in this order and nothing else, the critical
\* message iff a CRITICAL finding exists, the high-severity message iff a
\* HIGH finding exists, the refactor suggestion iff complexityScore > 70,
\* the exception-handling suggestion iff qualityScore < 60 and the coverage
\* suggestion iff test_coverage < 0.7; the good-practices message is the
\* only entry iff none of the five was appended; the list is never empty.
C6_RecommendationsInOrder ==
  Answered =>
    LET chosen == {i \in 1..5 : ConditionHolds[i]}
        recs == Body.recommendations
        \* the j-th smallest chosen condition
        Nth(j) == CHOOSE i \in chosen :
                    Cardinality({x \in chosen : x < i}) = j - 1
    IN  /\ recs # <<>>
        /\ (recs = <<GoodPracticesMessage>>) <=> (chosen = {})
        /\ chosen # {} =>
             /\ Len(recs) = Cardinality(chosen)
             /\ \A j \in 1..Len(recs) : recs[j] = ConditionalMessages[Nth(j)]

C6_Witness ==
  /\ Answered
  /\ ConditionHolds[2]
  /\ ConditionHolds[4]
  /\ Body.recommendations = <<HighMessage, ExceptionMessage, CoverageMessage>>

\* C7: the vulnerabilities list of a report has at most one entry and is
\* empty exactly when the detector's key for the source is 'none', the
\* secure 'none' and the default 'none' alike.
C7_AtMostOneVulnerability ==
  Answered =>
    /\ Len(Listed) <= 1
    /\ (Listed = <<>>) <=> (locals.security_results.vulnerability = "none")

C7_Witness ==
  /\ Answered
  /\ locals.security_results.vulnerability = "none"
  /\ locals.security_results.confidence = 95
  /\ Listed = <<>>

\* a 'private ' keyword, '()', a static instance field and 'getInstance'
SingletonSource(java_code) ==
  /\ In("private ", java_code)
  /\ In("()", java_code)
  /\ \/ (In("static", java_code) /\ In("instance", Lower(java_code)))
     \/ In("private static", java_code)
  /\ In("getInstance", java_code)

\* the substrings the six vulnerability rules look for
VulnerabilitySubstring(java_code) ==
  \/ \E needle \in {"+", "SELECT", "@GetMapping", "return \"<", "<div>",
                    "File(", "Paths.get", "DocumentBuilderFactory",
                    "parseXML", "password.length()", ".equals(\"admin\")",
                    ".length() >", "ObjectInputStream", ".readObject()"} :
        In(needle, java_code)
  \/ \E needle \in {"concat", "select", "uploads", "password"} :
        In(needle, Lower(java_code))

HasPattern(theory_results, pattern, confidence) ==
  \E i \in 1..Len(theory_results) :
     /\ theory_results[i].pattern = pattern
     /\ theory_results[i].confidence = confidence

\* C8: for a singleton source without '+' and without any vulnerability
\* substring, the detected patterns contain singleton_design_pattern with
\* confidence 0.95, the vulnerabilities list is empty and overallRisk is LOW.
C8_SingletonScenario ==
  (Answered /\ SingletonSource(request.code)
     /\ ~VulnerabilitySubstring(request.code)) =>
    /\ HasPattern(locals.theory_results, "singleton_design_pattern", 95)
    /\ Listed = <<>>
    /\ Risk = "LOW"

C8_Witness ==
  /\ Answered
  /\ SingletonSource(request.code)
  /\ ~VulnerabilitySubstring(request.code)
  /\ HasPattern(locals.theory_results, "singleton_design_pattern", 95)
  /\ Risk = "LOW"

\* a "SELECT ..." string literal concatenated with '+'
SelectConcatenation(java_code) ==
  In("\"SELECT", java_code) /\ In("+", java_code)

\* C9: for a source that concatenates a "SELECT ..." string literal with
\* '+', the vulnerabilities list has exactly one entry, of type
\* sql_injection (displayed 'SQL Injection') and severity HIGH, and
\* overallRisk is MEDIUM.
C9_SqlConcatenationScenario ==
  (Answered /\ SelectConcatenation(request.code)) =>
    /\ locals.security_results.vulnerability = "sql_injection"
    /\ Len(Listed) = 1
    /\ Listed[1].type = "SQL Injection"
    /\ Listed[1].severity = "HIGH"
    /\ Risk = "MEDIUM"

C9_Witness ==
  /\ Answered
  /\ SelectConcatenation(request.code)
  /\ Len(Listed) = 1
  /\ Listed[1].type = "SQL Injection"
  /\ Risk = "MEDIUM"

\* 'ObjectInputStream' and '.readObject()' with none of the five
\* higher-priority predicates
DeserializationOnly(java_code) ==
  /\ In("ObjectInputStream", java_code)
  /\ In(".readObject()", java_code)
  /\ \A k \in 1..5 : ~RuleHolds(k, java_code)

\* C10: for such a source the finding is insecure_deserialization with
\* severity CRITICAL, overallRisk is HIGH and the first recommendation is the
\* critical-issue message.
C10_DeserializationScenario ==
  (Answered /\ DeserializationOnly(request.code)) =>
    /\ locals.security_results.vulnerability = "insecure_deserialization"
    /\ locals.security_results.severity = "CRITICAL"
    /\ Len(Listed) = 1
    /\ Listed[1].severity = "CRITICAL"
    /\ Risk = "HIGH"
    /\ Body.recommendations[1] = CriticalMessage

C10_Witness ==
  /\ Answered
  /\ DeserializationOnly(request.code)
  /\ Risk = "HIGH"
  /\ Body.recommendations[1] = CriticalMessage

\* a password-hashing call together with the validation annotation
HashingAndValid(java_code) ==
  /\ (In("BCryptPasswordEncoder", java_code) \/ In("encoder.encode", java_code))
  /\ In("@Valid", java_code)

\* one of the six vulnerability predicates holds
HigherPriority(java_code) == \E k \in 1..6 : RuleHolds(k, java_code)

\* C11: a source with a password-hashing call and '@Valid' is reported as
\* 'none' with confidence 0.95 only when none of the six higher-priority
\* predicates holds (with one of them it is reported as a vulnerability);
\* 'none' comes with confidence 0.95 for such a source and 0.50 otherwise,
\* and in both cases the vulnerabilities list is empty and overallRisk LOW.
C11_SecureStateScenario ==
  Answered =>
    LET finding == locals.security_results
        secure == finding.vulnerability = "none" /\ finding.confidence = 95
    IN  /\ secure <=> (HashingAndValid(request.code)
                         /\ ~HigherPriority(request.code))
        /\ HigherPriority(request.code) <=> finding.vulnerability /= "none"
        /\ finding.vulnerability = "none" =>
              /\ finding.confidence = (IF secure THEN 95 ELSE 50)
              /\ finding.severity = "LOW"
              /\ Listed = <<>>
              /\ Risk = "LOW"

C11_Witness ==
  /\ Answered
  /\ HashingAndValid(request.code)
  /\ ~HigherPriority(request.code)
  /\ locals.security_results.confidence = 95
  /\ Listed = <<>>
  /\ Risk = "LOW"

\* the pattern keys of a detected list
PatternKeys(theory_results) ==
  {theory_results[i].pattern : i \in 1..Len(theory_results)}

\* the display names of the concepts of the response
ConceptNames ==
  {Body.conceptAnalysis.detectedConcepts[i].name :
     i \in 1..Len(Body.conceptAnalysis.detectedConcepts)}

\* C12: for every source containing both '@Service' and '@Autowired' the
\* detected patterns include service_layer_pattern and dependency_injection,
\* whatever other patterns fire, and the response lists both concepts.
C12_ServiceAndInjection ==
  (Answered /\ In("@Service", request.code)
     /\ In("@Autowired", request.code)) =>
    /\ HasPattern(locals.theory_results, "service_layer_pattern", 91)
    /\ HasPattern(locals.theory_results, "dependency_injection", 94)
    /\ {"Service Layer Pattern", "Dependency Injection"} \subseteq ConceptNames

C12_Witness ==
  /\ Answered
  /\ In("@Service", request.code)
  /\ In("@Autowired", request.code)
  /\ {"service_layer_pattern", "dependency_injection", "core_annotations_di"}
       \subseteq PatternKeys(locals.theory_results)
  /\ {"Service Layer Pattern", "Dependency Injection"} \subseteq ConceptNames

\* the request has no 'code' field, or an empty or blank one: request.json
\* raises or gives null, the body is no object (a list, a text, a number, a
\* boolean: none has fields), the object has no 'code', or its 'code' is null,
\* an empty list or object, or a text without a character other than white
\* space
MissingOrBlank(json) ==
  \/ SubSeq(ToString(json), 1, 1) /= "["
  \/ "code" \notin DOMAIN json
  \/ ToString(json.code) \in {"{}", "<<>>"}
  \/ /\ SubSeq(ToString(json.code), 1, 1) = "\""
     /\ \A i \in 1..Len(json.code) :
           SubSeq(json.code, i, i) \in {" ", "\n", "\t", "\r", "\f", "", "", "", "", "", "", " ", " "}

\* the requests without a 'code' field, or with an empty one, on which the
\* handler raises: request.json raises, the body is a number other than 0 or
\* true, a text that contains 'code', a list with the element 'code', or an
\* object whose 'code' is null or an empty list or object
RaisesOn(json) ==
  \/ SubSeq(ToString(json), 1, 1) = "{" /\ ToString(json) /= "{}"
  \/ /\ SubSeq(ToString(json), 1, 1) \notin {"{", "[", "<", "\""}
     /\ ToString(json) \notin {"0", "FALSE"}
  \/ SubSeq(ToString(json), 1, 1) = "\"" /\ In("code", json)
  \/ /\ SubSeq(ToString(json), 1, 1) = "<"
     /\ \E i \in 1..Len(json) : ToString(json[i]) = "\"code\""
  \/ /\ SubSeq(ToString(json), 1, 1) = "["
     /\ "code" \in DOMAIN json
     /\ ToString(json.code) \in {"{}", "<<>>"}

\* C14 as stated: a request whose 'code' field is missing, empty or white
\* space only is answered with status 400 and an error body, and the handler
\* returns before extract_code_metrics, detect_patterns_directly or
\* detect_vulnerabilities_directly has produced a value.
C14_RejectedWith400 ==
  (response /= NoResponse /\ MissingOrBlank(request)) =>
     /\ response.status = 400
     /\ DOMAIN response.body = {"error"}
     /\ locals = NoLocals

\* C14: a request whose 'code' field is missing, empty or white space only
\* is answered with an error body and the handler returns before
\* extract_code_metrics, detect_patterns_directly or
\* detect_vulnerabilities_directly has produced a value; the three are only
\* ever run on a text with a character other than white space.  The status
\* is 500 when the handler raises on the request (request.json raises, the
\* body is a number other than 0 or true, a text that contains 'code', a list
\* with the element 'code', or 'code' is null or an empty list or object)
\* and 400 otherwise.
C14_BlankCodeRejected ==
  /\ (response /= NoResponse /\ MissingOrBlank(request)) =>
        /\ response.status = (IF RaisesOn(request) THEN 500 ELSE 400)
        /\ DOMAIN response.body = {"error"}
        /\ locals = NoLocals
  /\ locals /= NoLocals =>
        /\ ~MissingOrBlank(request)
        /\ DOMAIN locals =
             {"code_metrics", "theory_results", "security_results"}

\* a list body with the element 'code' was answered 500 without an analysis
C14_Witness ==
  /\ ToString(request) = "<<\"code\">>"
  /\ MissingOrBlank(request)
  /\ response.status = 500
  /\ response.body.error = "list indices must be integers or slices, not str"
  /\ locals = NoLocals

\* C15: the answer of an /analyze call depends on its request body only: two
\* calls with the same body get the same answer and compute the same values,
\* in whichever order they, initialize_agents and /train calls are
\* interleaved and whatever the globals agent1 and agent2 hold when each is
\* served.
C15_ReportDependsOnSourceOnly ==
  (response /= NoResponse /\ other.response /= NoResponse
     /\ request = other.request) =>
    /\ response = other.response
    /\ locals = other.locals

C15_Witness ==
  /\ Answered
  /\ request = other.request
  /\ other.response = response
  /\ Len(Listed) = 1
  /\ agent1 = Trained
  /\ agent2 = Trained
  /\ training.status = 200

\* the sample of the suite that was posted
Posted == CHOOSE i \in DOMAIN run_all_tests : run_all_tests[i].code = request.code

\* C16: for each sample of the test suite, every expected keyword of the
\* sample occurs as a substring of the lower-cased display name of at least
\* one detected concept of the /analyze response.
C16_ExpectedKeywordsListed ==
  Answered =>
    \A k \in 1..Len(run_all_tests[Posted].expected_patterns) :
       \E name \in ConceptNames :
          In(run_all_tests[Posted].expected_patterns[k], Lower(name))

\* the number of physical lines of the source that contain one of the needles
LinesWith(java_code, needles) ==
  Cardinality({i \in 1..Len(Split(java_code)) :
                 \E needle \in needles : In(needle, Split(java_code)[i])})

\* 1 + if, for, while and switch lines, the 'case ' labels but one of a
\* source with a switch line, and the 'catch' of a source with 'try'
CyclomaticSum(java_code) ==
  LET ifLines == LinesWith(java_code, {" if ", "if("})
      forLines == LinesWith(java_code, {" for ", "for("})
      whileLines == LinesWith(java_code, {" while ", " while("})
      switchLines == LinesWith(java_code, {"switch"})
  IN  1 + ifLines + forLines + whileLines + switchLines
        + (IF switchLines > 0 THEN Count(java_code, "case ") - 1 ELSE 0)
        + (IF In("try", java_code) /\ In("catch", java_code)
           THEN Count(java_code, "catch") ELSE 0)

\* C17: the cyclomatic_complexity metric, which the response reports as
\* complexityScore, equals min(50, 1 + ifLines + forLines + whileLines +
\* switchLines + (count of 'case ' - 1 if switchLines > 0, else 0) + (count
\* of 'catch' if both 'try' and 'catch' occur, else 0)), the four counts
\* being numbers of physical lines that contain the keyword.
C17_CyclomaticComplexity ==
  Answered =>
    LET sum == CyclomaticSum(request.code)
        clamped == IF sum > 50 THEN 50 ELSE sum
    IN  /\ locals.code_metrics.cyclomatic_complexity = clamped
        /\ Body.conceptAnalysis.complexityScore = clamped

C17_Witness ==
  /\ Answered
  /\ LinesWith(request.code, {"switch"}) = 1
  /\ Count(request.code, "case ") = 3
  /\ Count(request.code, "catch") = 0
  /\ locals.code_metrics.cyclomatic_complexity = 4

\* the complexity clamp is reached
C17_Clamped ==
  /\ Answered
  /\ CyclomaticSum(request.code) > 50
  /\ locals.code_metrics.cyclomatic_complexity = 50

\* the branches of the cohesion cascade in their order, values in hundredths
CohesionBranches(java_code) ==
  LET c == basic_counts(java_code)
  IN  <<[holds |-> is_singleton(java_code, c), value |-> 92],
        [holds |-> is_factory(java_code, c), value |-> 85],
        [holds |-> is_builder(java_code, c), value |-> 88],
        [holds |-> is_prototype(java_code, c), value |-> 82],
        [holds |-> is_abstract_factory(java_code, c), value |-> 80],
        [holds |-> \/ is_adapter(java_code, c)
                   \/ is_decorator(java_code, c)
                   \/ is_proxy(java_code, c),
         value |-> 78],
        [holds |-> \/ is_composite(java_code, c)
                   \/ is_facade(java_code, c)
                   \/ is_bridge(java_code, c),
         value |-> 75],
        [holds |-> is_flyweight(java_code, c), value |-> 73],
        [holds |-> \/ is_strategy(java_code, c)
                   \/ is_observer(java_code, c)
                   \/ is_command(java_code, c),
         value |-> 77],
        [holds |-> is_service_layer(java_code, c), value |-> 75],
        [holds |-> \/ is_spring_mvc(java_code, c)
                   \/ is_restful_api(java_code, c),
         value |-> 70],
        [holds |-> \/ is_exception_handling(java_code, c)
                   \/ is_spring_error(java_code, c),
         value |-> 80],
        [holds |-> is_reactive(java_code, c), value |-> 76],
        [holds |-> TRUE, value |-> 60]>>

\* the position of the first branch that holds
FirstBranch(branches) ==
  CHOOSE k \in 1..Len(branches) :
    branches[k].holds /\ \A j \in 1..(k - 1) : ~branches[j].holds

\* C18: the cohesion metric is the value of the first true branch in the
\* order singleton 0.92, factory 0.85, builder 0.88, prototype 0.82,
\* abstract_factory 0.80, adapter|decorator|proxy 0.78,
\* composite|facade|bridge 0.75, flyweight 0.73, strategy|observer|command
\* 0.77, service_layer 0.75, spring_mvc|restful_api 0.70,
\* exception_handling|spring_error 0.80, reactive 0.76, else 0.60; a source
\* that is factory and builder (and not singleton) gets 0.85 and a singleton
\* source gets 0.92 whatever else it is.
C18_CohesionCascade ==
  Answered =>
    LET branches == CohesionBranches(request.code)
        value == locals.code_metrics.cohesion
    IN  /\ value = branches[FirstBranch(branches)].value
        /\ branches[1].holds => value = 92
        /\ (~branches[1].holds /\ branches[2].holds /\ branches[3].holds)
              => value = 85

C18_Witness ==
  /\ Answered
  /\ ~CohesionBranches(request.code)[1].holds
  /\ CohesionBranches(request.code)[2].holds
  /\ CohesionBranches(request.code)[3].holds
  /\ locals.code_metrics.cohesion = 85

\* the patterns named in the cohesion cascade and the keys under which
\* detect_patterns_directly reports them
CascadeKey ==
  [singleton |-> "singleton_design_pattern",
   factory |-> "factory_design_pattern",
   builder |-> "builder_design_pattern",
   prototype |-> "prototype_design_pattern",
   abstract_factory |-> "abstract_factory_design_pattern",
   adapter |-> "adapter_design_pattern",
   decorator |-> "decorator_design_pattern",
   proxy |-> "proxy_design_pattern",
   composite |-> "composite_design_pattern",
   facade |-> "facade_design_pattern",
   bridge |-> "bridge_design_pattern",
   flyweight |-> "flyweight_design_pattern",
   strategy |-> "strategy_design_pattern",
   observer |-> "observer_design_pattern",
   command |-> "command_design_pattern",
   service_layer |-> "service_layer_pattern",
   spring_mvc |-> "spring_mvc_pattern",
   restful_api |-> "restful_api_pattern",
   exception_handling |-> "exception_handling",
   spring_error |-> "spring_boot_error_handling",
   reactive |-> "reactive_programming"]

\* the boolean of extract_code_metrics that the cascade reads for a pattern
CascadeBoolean(name, java_code) ==
  LET c == basic_counts(java_code)
  IN  CASE name = "singleton" -> is_singleton(java_code, c)
        [] name = "factory" -> is_factory(java_code, c)
        [] name = "builder" -> is_builder(java_code, c)
        [] name = "prototype" -> is_prototype(java_code, c)
        [] name = "abstract_factory" -> is_abstract_factory(java_code, c)
        [] name = "adapter" -> is_adapter(java_code, c)
        [] name = "decorator" -> is_decorator(java_code, c)
        [] name = "proxy" -> is_proxy(java_code, c)
        [] name = "composite" -> is_composite(java_code, c)
        [] name = "facade" -> is_facade(java_code, c)
        [] name = "bridge" -> is_bridge(java_code, c)
        [] name = "flyweight" -> is_flyweight(java_code, c)
        [] name = "strategy" -> is_strategy(java_code, c)
        [] name = "observer" -> is_observer(java_code, c)
        [] name = "command" -> is_command(java_code, c)
        [] name = "service_layer" -> is_service_layer(java_code, c)
        [] name = "spring_mvc" -> is_spring_mvc(java_code, c)
        [] name = "restful_api" -> is_restful_api(java_code, c)
        [] name = "exception_handling" -> is_exception_handling(java_code, c)
        [] name = "spring_error" -> is_spring_error(java_code, c)
        [] name = "reactive" -> is_reactive(java_code, c)

\* the cascade read over the detected pattern keys instead of the booleans
DetectedBranches(detected) ==
  <<[holds |-> {"singleton_design_pattern"} \cap detected /= {},
     value |-> 92],
    [holds |-> {"factory_design_pattern"} \cap detected /= {},
     value |-> 85],
    [holds |-> {"builder_design_pattern"} \cap detected /= {},
     value |-> 88],
    [holds |-> {"prototype_design_pattern"} \cap detected /= {},
     value |-> 82],
    [holds |-> {"abstract_factory_design_pattern"} \cap detected /= {},
     value |-> 80],
    [holds |-> {"adapter_design_pattern", "decorator_design_pattern", "proxy_design_pattern"} \cap detected /= {},
     value |-> 78],
    [holds |-> {"composite_design_pattern", "facade_design_pattern", "bridge_design_pattern"} \cap detected /= {},
     value |-> 75],
    [holds |-> {"flyweight_design_pattern"} \cap detected /= {},
     value |-> 73],
    [holds |-> {"strategy_design_pattern", "observer_design_pattern", "command_design_pattern"} \cap detected /= {},
     value |-> 77],
    [holds |-> {"service_layer_pattern"} \cap detected /= {},
     value |-> 75],
    [holds |-> {"spring_mvc_pattern", "restful_api_pattern"} \cap detected /= {},
     value |-> 70],
    [holds |-> {"exception_handling", "spring_boot_error_handling"} \cap detected /= {},
     value |-> 80],
    [holds |-> {"reactive_programming"} \cap detected /= {},
     value |-> 76],
    [holds |-> TRUE, value |-> 60]>>

\* C19 as stated: for every source and every pattern named in the cascade,
\* the cascade's boolean is true exactly when detect_patterns_directly
\* reports that pattern, so the cohesion value is the one of the first
\* cascade branch whose pattern appears in the detected patterns.
C19_CascadeReadsDetectedPatterns ==
  Answered =>
    LET detected == PatternKeys(locals.theory_results)
        branches == DetectedBranches(detected)
    IN  /\ \A name \in DOMAIN CascadeKey :
             CascadeBoolean(name, request.code) <=> CascadeKey[name] \in detected
        /\ locals.code_metrics.cohesion = branches[FirstBranch(branches)].value

\* the patterns whose boolean and detector rule are the same test
SameTest ==
  {"singleton", "factory", "builder", "prototype", "abstract_factory",
   "adapter", "decorator", "proxy", "composite", "bridge", "flyweight",
   "strategy", "observer", "command", "restful_api"}

\* C19, amended: the cascade reads booleans that extract_code_metrics computes
\* itself; each is true whenever detect_patterns_directly reports the pattern,
\* and exactly then for the patterns of SameTest, but for facade,
\* service_layer, spring_mvc, exception_handling, spring_error and reactive
\* it can be true of a source the detector does not report.  The cohesion
\* value is therefore the one of the first branch whose boolean is true, a
\* branch at or before the first one whose pattern is detected.
C19_DetectedImpliesCascadeBoolean ==
  Answered =>
    LET detected == PatternKeys(locals.theory_results)
        read == CohesionBranches(request.code)
    IN  /\ \A name \in DOMAIN CascadeKey :
             CascadeKey[name] \in detected
               => CascadeBoolean(name, request.code)
        /\ \A name \in SameTest :
             CascadeBoolean(name, request.code) => CascadeKey[name] \in detected
        /\ locals.code_metrics.cohesion = read[FirstBranch(read)].value
        /\ FirstBranch(read) <= FirstBranch(DetectedBranches(detected))

C19_Witness ==
  /\ Answered
  /\ CascadeBoolean("facade", request.code)
  /\ "facade_design_pattern" \notin PatternKeys(locals.theory_results)
  /\ FirstBranch(CohesionBranches(request.code)) = 7
  /\ FirstBranch(DetectedBranches(PatternKeys(locals.theory_results))) = 14
  /\ locals.code_metrics.cohesion = 75

\* the ratio, in tenths, with every keyword but 'query' looked for as written
RatioAsWritten(java_code) ==
  IF In("@Valid", java_code) \/ In("validate", java_code)
       \/ In("sanitize", java_code) THEN 8
  ELSE IF In("?", java_code)
            /\ (In("query", Lower(java_code)) \/ In("SELECT", java_code))
  THEN 7
  ELSE IF In("StringEscapeUtils", java_code) \/ In("normalize", java_code)
  THEN 6
  ELSE 1

\* C20 as stated: input_validation_ratio is 0.8 if '@Valid', 'validate' or
\* 'sanitize' is present; else 0.7 if '?' is present together with 'query'
\* (case-insensitive) or 'SELECT'; else 0.6 if 'StringEscapeUtils' or
\* 'normalize' is present; else 0.1.
C20_RatioAsWritten ==
  Answered =>
    locals.code_metrics.input_validation_ratio = RatioAsWritten(request.code)

\* the ordered branches of the ratio, in tenths; 'validate', 'sanitize',
\* 'normalize' and 'query' are looked for in the lower-cased text
RatioBranches(java_code) ==
  <<[holds |-> \/ In("@Valid", java_code)
               \/ In("validate", Lower(java_code))
               \/ In("sanitize", Lower(java_code)),
     value |-> 8],
    [holds |-> /\ In("?", java_code)
               /\ \/ In("query", Lower(java_code))
                  \/ In("SELECT", java_code),
     value |-> 7],
    [holds |-> \/ In("StringEscapeUtils", java_code)
               \/ In("normalize", Lower(java_code)),
     value |-> 6],
    [holds |-> TRUE, value |-> 1]>>

\* C20, amended: input_validation_ratio is the value of the first branch that
\* holds, 'validate', 'sanitize' and 'normalize' being matched without regard
\* to case like 'query'; it is one of 0.8, 0.7, 0.6, 0.1, and a source with
\* '@Valid' and SQL concatenation gets 0.8.
C20_InputValidationRatio ==
  Answered =>
    LET branches == RatioBranches(request.code)
        first == CHOOSE k \in 1..4 :
                   /\ branches[k].holds
                   /\ \A j \in 1..(k - 1) : ~branches[j].holds
        ratio == locals.code_metrics.input_validation_ratio
    IN  /\ ratio = branches[first].value
        /\ ratio \in {8, 7, 6, 1}
        /\ (In("@Valid", request.code) /\ SelectConcatenation(request.code))
              => ratio = 8

C20_Witness ==
  /\ Answered
  /\ In("@Valid", request.code)
  /\ In("?", request.code)
  /\ In("SELECT", request.code)
  /\ locals.code_metrics.input_validation_ratio = 8

\* the ten membership lists of categorize_pattern with their labels
Tables ==
  {[names |-> creational, label |-> "CREATIONAL DESIGN PATTERNS"],
   [names |-> structural, label |-> "STRUCTURAL DESIGN PATTERNS"],
   [names |-> behavioral, label |-> "BEHAVIORAL DESIGN PATTERNS"],
   [names |-> spring, label |-> "SPRING FRAMEWORK PATTERNS"],
   [names |-> java_concepts, label |-> "CORE JAVA CONCEPTS"],
   [names |-> modern_java, label |-> "MODERN JAVA FEATURES"],
   [names |-> spring_boot, label |-> "SPRING BOOT ECOSYSTEM"],
   [names |-> web_dev, label |-> "WEB DEVELOPMENT"],
   [names |-> api_docs, label |-> "API DOCUMENTATION"],
   [names |-> database, label |-> "DATABASE INTEGRATION"]}

Labels == {T.label : T \in Tables} \cup {"OTHER PATTERNS"}

Categorized == "category" \in DOMAIN response

\* C21: categorize_pattern gives every name one of 11 labels: the label of a
\* list exactly when the name is in that list, whatever the order of the
\* tests (no name is in two lists), and OTHER PATTERNS exactly when the name
\* is in no list
C21_OneCategoryPerName ==
  Categorized =>
    /\ Cardinality(Labels) = 11
    /\ response.category \in Labels
    /\ \A T \in Tables :
         request.pattern_name \in T.names <=> response.category = T.label
    /\ (\A T \in Tables : request.pattern_name \notin T.names)
         <=> response.category = "OTHER PATTERNS"

\* a display name that is in no list is answered OTHER PATTERNS
C21_Witness ==
  /\ Categorized
  /\ request.pattern_name = "Factory Design Pattern"
  /\ response.category = "OTHER PATTERNS"

\* the positions of the keywords of a list that occur in a text
Occurring(keywords, text) ==
  {i \in 1..Len(keywords) : In(keywords[i], text)}

\* the n-th smallest position of a set of positions
NthOf(positions, n) ==
  CHOOSE i \in positions : Cardinality({k \in positions : k <= i}) = n

\* words is the list of the keywords that occur in the text, in the order of
\* the keyword list, cut after five
IsMatchedWords(words, keywords, text) ==
  LET positions == Occurring(keywords, text)
  IN  /\ Len(words) = Min(5, Cardinality(positions))
      /\ \A n \in 1..Len(words) : words[n] = keywords[NthOf(positions, n)]
      /\ \A m, n \in 1..Len(words) : words[m] = words[n] => m = n

\* C22: the matchedWords of every detected concept are the keywords of its
\* pattern's list (the fallback list for a key without one) that occur in
\* the lower-cased source, in list order, at most five, none twice
C22_MatchedWords ==
  Answered =>
    \A i \in 1..Len(Body.conceptAnalysis.detectedConcepts) :
        IsMatchedWords(Body.conceptAnalysis.detectedConcepts[i].matchedWords,
                       pattern_keywords(locals.theory_results[i].pattern),
                       Lower(request.code))

\* getInstance matches 'instance' and the absent 'singleton' is left out;
\* a concept without a list of its own is matched against the fallback list
C22_Witness ==
  /\ Answered
  /\ \E i \in 1..Len(Body.conceptAnalysis.detectedConcepts) :
        /\ locals.theory_results[i].pattern = "singleton_design_pattern"
        /\ Body.conceptAnalysis.detectedConcepts[i].matchedWords
             = <<"instance", "static", "private">>
  /\ \E i \in 1..Len(Body.conceptAnalysis.detectedConcepts) :
        /\ locals.theory_results[i].pattern = "facade_design_pattern"
        /\ Body.conceptAnalysis.detectedConcepts[i].matchedWords
             = <<"private">>

\* C23: in every metrics row code_duplication is 0.0 and test_coverage is
\* 0.5, whatever the source contains
C23_PlaceholderMetrics ==
  Answered =>
    /\ locals.code_metrics.code_duplication = 0
    /\ locals.code_metrics.test_coverage = 50

\* a source with handlers and a validation annotation has the same two
\* values
C23_Witness ==
  /\ Answered
  /\ In("catch", request.code)
  /\ In("@Valid", request.code)
  /\ locals.code_metrics.code_duplication = 0
  /\ locals.code_metrics.test_coverage = 50

\* C24: the recommendations of every report end with the coverage message
\* and never hold the good-practices message
C24_CoverageMessageLast ==
  Answered =>
    /\ Body.recommendations /= <<>>
    /\ Body.recommendations[Len(Body.recommendations)] = CoverageMessage
    /\ \A i \in 1..Len(Body.recommendations) :
         Body.recommendations[i] /= GoodPracticesMessage

\* a report with a quality score of 60 or more and no finding, where no
\* other message applies
C24_Witness ==
  /\ Answered
  /\ Listed = <<>>
  /\ Body.qualityScore >= 60
  /\ Body.recommendations = <<CoverageMessage>>

\* C25: complexityScore lies in 1..50, the cyclomatic sum being at least 1
\* also for a switch line without 'case ', and the refactor message, given
\* for a complexityScore above 70, is in no report
C25_ComplexityScoreBelowRefactor ==
  Answered =>
    /\ CyclomaticSum(request.code) >= 1
    /\ Body.conceptAnalysis.complexityScore \in 1..50
    /\ \A i \in 1..Len(Body.recommendations) :
         Body.recommendations[i] /= RefactorMessage

\* a switch line and no 'case ': the sum is 1 + 1 - 1
C25_Witness ==
  /\ Answered
  /\ LinesWith(request.code, {"switch"}) = 1
  /\ Count(request.code, "case ") = 0
  /\ CyclomaticSum(request.code) = 1
  /\ Body.conceptAnalysis.complexityScore = 1

\* C26: cognitive_complexity is twice the reported cyclomatic_complexity and
\* at most 100: min(100, 2 * sum) of the unclamped sum is 2 * min(50, sum)
C26_CognitiveIsTwiceCyclomatic ==
  Answered =>
    /\ locals.code_metrics.cognitive_complexity
         = 2 * locals.code_metrics.cyclomatic_complexity
    /\ locals.code_metrics.cognitive_complexity <= 100
    /\ locals.code_metrics.cognitive_complexity
         = Min(100, 2 * CyclomaticSum(request.code))

\* a sum above 50: reported 50, cognitive 100
C26_Witness ==
  /\ Answered
  /\ CyclomaticSum(request.code) > 50
  /\ locals.code_metrics.cyclomatic_complexity = 50
  /\ locals.code_metrics.cognitive_complexity = 100

\* the keys of the 48 rules in the order of the rules
RuleOrder ==
  <<"singleton_design_pattern",
    "factory_design_pattern",
    "builder_design_pattern",
    "prototype_design_pattern",
    "abstract_factory_design_pattern",
    "adapter_design_pattern",
    "decorator_design_pattern",
    "proxy_design_pattern",
    "composite_design_pattern",
    "facade_design_pattern",
    "bridge_design_pattern",
    "flyweight_design_pattern",
    "strategy_design_pattern",
    "observer_design_pattern",
    "command_design_pattern",
    "template_method_design_pattern",
    "iterator_design_pattern",
    "state_design_pattern",
    "chain_of_responsibility_design_pattern",
    "mediator_design_pattern",
    "memento_design_pattern",
    "visitor_design_pattern",
    "interpreter_design_pattern",
    "dependency_injection",
    "spring_mvc_pattern",
    "restful_api_pattern",
    "repository_pattern",
    "service_layer_pattern",
    "dto_pattern",
    "aop_pattern",
    "oop_fundamentals",
    "collections_framework",
    "exception_handling",
    "conditional_control_flow",
    "loops_and_iteration",
    "basic_programming_constructs",
    "optional_null_safety",
    "functional_programming",
    "spring_boot_error_handling",
    "reactive_programming",
    "utility_libraries",
    "lombok_jpa_annotations",
    "core_annotations_di",
    "web_mvc_annotations",
    "http_request_processing",
    "openapi_documentation",
    "spring_data_jpa",
    "batch_processing_etl">>

\* for each key, whether its rule holds of the source
Fires(java_code) ==
  LET d == direct_counts(java_code)
  IN  [singleton_design_pattern |-> singleton_rule(java_code, d),
       factory_design_pattern |-> factory_rule(java_code, d),
       builder_design_pattern |-> builder_rule(java_code, d),
       prototype_design_pattern |-> prototype_rule(java_code, d),
       abstract_factory_design_pattern |-> abstract_factory_rule(java_code, d),
       adapter_design_pattern |-> adapter_rule(java_code, d),
       decorator_design_pattern |-> decorator_rule(java_code, d),
       proxy_design_pattern |-> proxy_rule(java_code, d),
       composite_design_pattern |-> composite_rule(java_code, d),
       facade_design_pattern |-> facade_rule(java_code, d),
       bridge_design_pattern |-> bridge_rule(java_code, d),
       flyweight_design_pattern |-> flyweight_rule(java_code, d),
       strategy_design_pattern |-> strategy_rule(java_code, d),
       observer_design_pattern |-> observer_rule(java_code, d),
       command_design_pattern |-> command_rule(java_code, d),
       template_method_design_pattern |-> template_method_rule(java_code, d),
       iterator_design_pattern |-> iterator_rule(java_code, d),
       state_design_pattern |-> state_rule(java_code, d),
       chain_of_responsibility_design_pattern |-> chain_of_responsibility_rule(java_code, d),
       mediator_design_pattern |-> mediator_rule(java_code, d),
       memento_design_pattern |-> memento_rule(java_code, d),
       visitor_design_pattern |-> visitor_rule(java_code, d),
       interpreter_design_pattern |-> interpreter_rule(java_code, d),
       dependency_injection |-> dependency_injection_rule(java_code, d),
       spring_mvc_pattern |-> spring_mvc_rule(java_code, d),
       restful_api_pattern |-> restful_api_rule(java_code, d),
       repository_pattern |-> repository_rule(java_code, d),
       service_layer_pattern |-> service_layer_rule(java_code, d),
       dto_pattern |-> dto_rule(java_code, d),
       aop_pattern |-> aop_rule(java_code, d),
       oop_fundamentals |-> oop_fundamentals_rule(java_code, d),
       collections_framework |-> collections_framework_rule(java_code, d),
       exception_handling |-> exception_handling_rule(java_code, d),
       conditional_control_flow |-> conditional_control_flow_rule(java_code, d),
       loops_and_iteration |-> loops_and_iteration_rule(java_code, d),
       basic_programming_constructs |-> basic_programming_constructs_rule(java_code, d),
       optional_null_safety |-> optional_null_safety_rule(java_code, d),
       functional_programming |-> functional_programming_rule(java_code, d),
       spring_boot_error_handling |-> spring_boot_error_handling_rule(java_code, d),
       reactive_programming |-> reactive_programming_rule(java_code, d),
       utility_libraries |-> utility_libraries_rule(java_code, d),
       lombok_jpa_annotations |-> lombok_jpa_annotations_rule(java_code, d),
       core_annotations_di |-> core_annotations_di_rule(java_code, d),
       web_mvc_annotations |-> web_mvc_annotations_rule(java_code, d),
       http_request_processing |-> http_request_processing_rule(java_code, d),
       openapi_documentation |-> openapi_documentation_rule(java_code, d),
       spring_data_jpa |-> spring_data_jpa_rule(java_code, d),
       batch_processing_etl |-> batch_processing_etl_rule(java_code, d)]

\* the keys of a list of detected patterns, in the order of the list
KeysOf(theory_results) ==
  [i \in 1..Len(theory_results) |-> theory_results[i].pattern]

\* C27: the detected patterns are the keys whose rule holds of the source,
\* each once and in the order of the 48 rules, from singleton to
\* batch_processing_etl: a rule's entry is present exactly when its own
\* test holds, whatever the other rules found
C27_IndependentRulesInOrder ==
  Answered =>
    LET keys == KeysOf(locals.theory_results)
        fires == Fires(request.code)
    IN  /\ Len(RuleOrder) = 48
        /\ RuleOrder[1] = "singleton_design_pattern"
        /\ RuleOrder[48] = "batch_processing_etl"
        /\ \A m, n \in 1..Len(keys) : keys[m] = keys[n] => m = n
        /\ \A k \in DOMAIN fires :
             fires[k] <=> \E n \in 1..Len(keys) : keys[n] = k
        /\ keys = SelectSeq(RuleOrder, LAMBDA k : fires[k])

\* three rules fire, with rules between them that do not
C27_Witness ==
  /\ Answered
  /\ KeysOf(locals.theory_results)
       = <<"singleton_design_pattern", "facade_design_pattern",
           "basic_programming_constructs">>

\* the sections of detect_patterns_directly: the number of the last rule of
\* each section and the category label of its group
Sections ==
  <<[last |-> 5, label |-> "CREATIONAL DESIGN PATTERNS"],
    [last |-> 12, label |-> "STRUCTURAL DESIGN PATTERNS"],
    [last |-> 23, label |-> "BEHAVIORAL DESIGN PATTERNS"],
    [last |-> 30, label |-> "SPRING FRAMEWORK PATTERNS"],
    [last |-> 36, label |-> "CORE JAVA CONCEPTS"],
    [last |-> 38, label |-> "MODERN JAVA FEATURES"],
    [last |-> 42, label |-> "SPRING BOOT ECOSYSTEM"],
    [last |-> 45, label |-> "WEB DEVELOPMENT"],
    [last |-> 46, label |-> "API DOCUMENTATION"],
    [last |-> 48, label |-> "DATABASE INTEGRATION"]>>

\* the label of the section of the rule that emits a key
SectionLabel(key) ==
  LET rule == CHOOSE n \in 1..Len(RuleOrder) : RuleOrder[n] = key
      section == CHOOSE s \in 1..Len(Sections) :
                   /\ rule <= Sections[s].last
                   /\ \A t \in 1..(s - 1) : rule > Sections[t].last
  IN  Sections[section].label

\* C28: categorize_pattern gives each of the 48 keys of the detector the
\* label of the key's rule section, and every detected concept of a report
\* carries that label, never OTHER PATTERNS
C28_DetectedKeysCategorised ==
  /\ \A n \in 1..Len(RuleOrder) :
       categorize_pattern(RuleOrder[n]) = SectionLabel(RuleOrder[n])
  /\ Answered =>
       \A i \in 1..Len(Body.conceptAnalysis.detectedConcepts) :
          /\ Body.conceptAnalysis.detectedConcepts[i].category
               = SectionLabel(locals.theory_results[i].pattern)
          /\ Body.conceptAnalysis.detectedConcepts[i].category
               /= "OTHER PATTERNS"

\* a report with a concept of the core Java and a concept of the last section
C28_Witness ==
  /\ Answered
  /\ \E i, j \in 1..Len(Body.conceptAnalysis.detectedConcepts) :
        /\ locals.theory_results[i].pattern = "basic_programming_constructs"
        /\ Body.conceptAnalysis.detectedConcepts[i].category
             = "CORE JAVA CONCEPTS"
        /\ locals.theory_results[j].pattern = "batch_processing_etl"
        /\ Body.conceptAnalysis.detectedConcepts[j].category
             = "DATABASE INTEGRATION"

\* a '+' or, in any case, 'concat', together with 'select' in any case
ConcatenatedSelect(java_code) ==
  /\ (In("+", java_code) \/ In("concat", Lower(java_code)))
  /\ In("select", Lower(java_code))

\* C29: the finding is sql_injection exactly when the source has a '+' or
\* 'concat' (any case) and 'select' (any case); a source with '"SELECT' and
\* '+' is such a source; the XSS, path, XXE, authentication, deserialization
\* and secure-state tests of the same source do not change the finding
C29_SqlInjectionRule ==
  Answered =>
    /\ locals.security_results.vulnerability = "sql_injection"
         <=> ConcatenatedSelect(request.code)
    /\ (In("\"SELECT", request.code) /\ In("+", request.code))
         => ConcatenatedSelect(request.code)
    /\ (In("+", request.code) /\ In("select", Lower(request.code)))
         => /\ locals.security_results.vulnerability = "sql_injection"
            /\ Risk = "MEDIUM"

\* a lower-case 'select' and the '+' of an HTML concatenation: reported as
\* sql_injection although the XSS test holds too
C29_Witness ==
  /\ Answered
  /\ ~In("SELECT", request.code)
  /\ In("select", request.code)
  /\ In("<div>", request.code)
  /\ In("+", request.code)
  /\ locals.security_results.vulnerability = "sql_injection"

\* a step that is a step of a /train call: no other step changes the state
\* of the /train call (compared in its printed form, which a null body has
\* as well as an object) or stores a trained agent
TrainStep ==
  \/ ToString(training') /= ToString(training)
  \/ (agent1' = Trained /\ agent1 /= Trained)
  \/ (agent2' = Trained /\ agent2 /= Trained)

\* C30: a /train call answered 400 or 500 leaves agent1 and agent2 as they
\* were from its first step to its answer, a /train call answered 200 leaves
\* both trained, and after every step either both globals hold a trained
\* agent or neither does
C30_TrainReplacesBothOrNeither ==
  [][/\ TrainStep =>
          \/ /\ training'.status \in {400, 500}
             /\ "error" \in DOMAIN training'.body
             /\ agent1' = agent1
             /\ agent2' = agent2
          \/ /\ training'.status = 200
             /\ agent1' = Trained
             /\ agent2' = Trained
          \/ /\ training'.status = 0
             /\ "request" \in DOMAIN training'
             /\ agent1' = agent1
             /\ agent2' = agent2
     /\ agent1' = Trained <=> agent2' = Trained]_vars

\* a failed /train after a successful one: both trained agents are still
\* in place
C30_Witness ==
  /\ training.status = 500
  /\ training.body.error = "'patterns'"
  /\ agent1 = Trained
  /\ agent2 = Trained

====
